---- MODULE Spec2Model ----
(***************************************************************************)
(* Model of the ring buffer of src/src/ring_buffer.c (V3.0.0).             *)
(*                                                                         *)
(* The instance fields of ring_buffer_t are the state; every API function  *)
(* is one action.  The storage p_data is modelled byte by byte, each item  *)
(* being size_of_item bytes, so the two-segment copies of                  *)
(* ring_buffer_add_many_to_buf / ring_buffer_get_many_from_buf are         *)
(* computed with the byte offsets of the C code.                           *)
(***************************************************************************)
EXTENDS Integers, Naturals, Sequences, FiniteSets, TLC

(***************************************************************************)
(* Bounds of the model                                                     *)
(***************************************************************************)
\* largest size_of_buffer (number of item slots) an instance is built with
MaxSize == 2
\* size_of_item (bytes per item) the instance is built with
ItemSize == 2

(***************************************************************************)
(* ring_buffer_status_t                                                    *)
(***************************************************************************)
eRING_BUFFER_OK == 0
eRING_BUFFER_ERROR == 1
eRING_BUFFER_ERROR_INIT == 2
eRING_BUFFER_ERROR_MEM == 4
eRING_BUFFER_ERROR_INST == 8
eRING_BUFFER_FULL == 16
eRING_BUFFER_EMPTY == 32

(***************************************************************************)
(* Values of the callers                                                   *)
(***************************************************************************)
\* the null pointer, as instance or as item pointer
NULL == "NULL"
\* a valid pointer
PTR == "ptr"

\* The item values of the callers.  The buffer copies the bytes of an item
\* and never looks at them, so two values are as good as any number.
ItemIds == {1, 2}

\* uint32_t and size_t arithmetic wraps.  The integers of the model checker
\* end at 2^31 - 1, so the model wraps at 2^24 instead of 2^32: every sum,
\* difference and product the model computes before wrapping lies strictly
\* between -2^31 and 2^31, the sizes, indices and requests are far below
\* 2^24, hence a computation wraps in the model exactly when it wraps in C,
\* and a wrapped difference is larger than every size, index and request, as
\* in C.
UintModulus == 2^24

U32(x) == x % UintModulus

\* byte k (from 0) of the item with value v: no byte of an item is 0, and the
\* bytes of one item differ from each other and from those of other items
ItemByte(v, k) == (16 * v) + k

\* the byte image of a sequence of item values, each isz bytes long
Flat(items, isz) ==
    [i \in 1..(Len(items) * isz) |->
        ItemByte(items[((i - 1) \div isz) + 1], (i - 1) % isz)]

\* the n item values a caller passes to ring_buffer_add_multi, starting at v
Ramp(v, n) == [j \in 1..n |-> ((v + j - 2) % Cardinality(ItemIds)) + 1]

\* the caller's output buffer before a call: sz bytes of a sentinel value
FreshBuf(sz) == [i \in 1..sz |-> 0 - 1]

\* what a load from outside the storage region can yield
OobBytes == {0, 255}

Min(a, b) == IF a <= b THEN a ELSE b

VARIABLES
    p_ring_buffer,    \* the caller's handle of the instance: NULL or PTR
    name,             \* ring_buffer_t.name
    size_of_buffer,   \* ring_buffer_t.size_of_buffer: number of item slots
    size_of_item,     \* ring_buffer_t.size_of_item: bytes per item
    override,         \* ring_buffer_t.override
    is_init,          \* ring_buffer_t.is_init
    head,             \* ring_buffer_t.head
    tail,             \* ring_buffer_t.tail
    count,            \* ring_buffer_t.count
    p_data,           \* ring_buffer_t.p_data: byte offset -> byte
    ub,               \* a load or store outside p_data has happened
    call,             \* the last API call: arguments, status, output buffer
    track,            \* which of the histories below this run records
    level,            \* history: items added - items removed - items discarded
    streak,           \* history: successful ring_buffer_add calls since a get or reset
    rt,               \* history: progress of an add.. / get.. round trip
    script,           \* history: progress of a scripted sequence of calls
    law,              \* history: the gets after an add_multi of more than size items
    kept,             \* history: the items a FIFO of size_of_buffer items would hold
    seen,             \* history: what ring_buffer_get_by_index returned, by index
    early,            \* history: an accessor call made before construction
    prod,             \* the producer: its call in progress and its position in it
    cons,             \* the consumer: its call in progress and its position in it
    pub,              \* history: the item published in each slot and not yet copied out
    queue,            \* history: the items accepted from the producer and not yet returned
    drain,            \* history: progress of pumping all items out of the buffer
    alloc             \* history: the allocation failures of ring_buffer_init

vars == <<p_ring_buffer, name, size_of_buffer, size_of_item, override, is_init,
          head, tail, count, p_data, ub, call, track, level, streak, rt, script,
          law, kept, seen, early, prod, cons, pub, queue, drain, alloc>>

\* the producer, the consumer and their history
roles == <<prod, cons, pub, queue>>

config == <<p_ring_buffer, name, size_of_buffer, size_of_item, override, is_init>>

(***************************************************************************)
(* Static helpers of ring_buffer.c                                         *)
(***************************************************************************)
ring_buffer_wrap_index_off_by_one(idx, size) ==
    IF idx > size THEN U32(idx - size) ELSE idx

ring_buffer_wrap_index(idx, size) ==
    IF idx > U32(size - 1) THEN U32(idx - size) ELSE idx

ring_buffer_increment_index(idx, size, inc) ==
    ring_buffer_wrap_index(U32(idx + inc), size)

\* the value ring_buffer_incr_count stores in count, cnt being the value it
\* loads
ring_buffer_incr_count(cnt, n) ==
    IF override
    THEN LET max_count == U32(size_of_buffer - cnt)
         IN  IF n <= max_count THEN n ELSE max_count
    ELSE U32(cnt + n)

\* ring_buffer_memcpy into the storage: the bytes src[off+1 .. off+sz] go to
\* the byte offsets dst .. dst+sz-1 of mem; those that fall outside the
\* storage region are "stray"
ring_buffer_memcpy(mem, dst, src, off, sz) ==
    [mem   |-> [i \in DOMAIN mem |->
                   IF (i >= dst) /\ (i < dst + sz)
                   THEN src[off + (i - dst) + 1] ELSE mem[i]],
     stray |-> {src[off + (i - dst) + 1] :
                   i \in {j \in dst..(dst + sz - 1) : j \notin DOMAIN mem}}]

\* ring_buffer_memcpy out of the storage: sz bytes from byte offset src on;
\* a load outside the storage region yields g
MemRead(mem, src, sz, g) ==
    [i \in 1..sz |-> IF (src + i - 1) \in DOMAIN mem THEN mem[src + i - 1] ELSE g]

OobRead(mem, src, sz) == \E i \in 1..sz : (src + i - 1) \notin DOMAIN mem

\* The values of head, tail and count after stores of ring_buffer_memcpy:
\* a stray store lands in memory the storage region does not own, which may
\* or may not be a field of the instance.
Clobbered(stray) ==
    {[head |-> head, tail |-> tail, count |-> count]}
    \cup {[head |-> b, tail |-> tail, count |-> count] : b \in stray}
    \cup {[head |-> head, tail |-> b, count |-> count] : b \in stray}
    \cup {[head |-> head, tail |-> tail, count |-> b] : b \in stray}

\* a ring_buffer_clear_mem that leaves the storage as it is
ring_buffer_clear_mem_skipped(mem) == mem

\* ring_buffer_clear_mem
ring_buffer_clear_mem(mem) == [i \in DOMAIN mem |-> 0]

(***************************************************************************)
(* Accessors                                                               *)
(***************************************************************************)
ring_buffer_get_name == IF is_init THEN name ELSE NULL

ring_buffer_get_taken == IF is_init THEN count ELSE 0

ring_buffer_get_size == IF is_init THEN size_of_buffer ELSE 0

ring_buffer_get_free ==
    IF is_init THEN U32(ring_buffer_get_size - ring_buffer_get_taken) ELSE 0

ring_buffer_get_item_size == IF is_init THEN size_of_item ELSE 0

ring_buffer_is_full == IF is_init THEN count = size_of_buffer ELSE FALSE

ring_buffer_is_empty == IF is_init THEN count = 0 ELSE FALSE

(***************************************************************************)
(* The record of an API call                                               *)
(***************************************************************************)
\* op: the function; inst, p_item: NULL or PTR; items: the item values passed
\* in; n: the number of items asked for; idx: the index of get_by_index;
\* status: the returned status; out: the caller's output buffer after the call
Call(op, inst, p_item, items, n, idx, status, out) ==
    [op |-> op, inst |-> inst, p_item |-> p_item, items |-> items, n |-> n,
     idx |-> idx, status |-> status, out |-> out]

\* The pointer arguments <<buf_inst, p_item>> of the callers.
PtrArgs == {<<PTR, PTR>>, <<NULL, PTR>>, <<PTR, NULL>>}

\* A function that finds a null pointer returns before it looks at its other
\* arguments: such a call is enumerated with one value of each of them.
Given(a, S, d) == IF a = <<PTR, PTR>> THEN S ELSE {d}

\* the same for a function that returns when test fails
Reached(test, S, d) == IF test THEN S ELSE {d}

\* the bytes a call can load from outside the storage, when it does (oob)
Loaded(oob) == IF oob THEN OobBytes ELSE {0}

\* the call has an instance and an item pointer
ValidArgs(c) == (c.inst # NULL) /\ (c.p_item # NULL)

(***************************************************************************)
(* History variables: they observe the calls and never influence them.     *)
(***************************************************************************)
\* items added minus items removed minus items discarded by override
NextLevel(c) ==
    IF c.status # eRING_BUFFER_OK THEN level
    ELSE IF c.op \in {"add", "add_multi"} THEN Min(level + c.n, size_of_buffer)
    ELSE IF c.op \in {"get", "get_multi"} THEN (IF level >= c.n THEN level - c.n ELSE 0)
    ELSE IF c.op = "reset" THEN 0
    ELSE level

\* successful ring_buffer_add calls since the last get, get_multi or reset,
\* counted up to size_of_buffer
NextStreak(c) ==
    IF c.op = "add"
    THEN (IF c.status = eRING_BUFFER_OK THEN Min(streak + 1, size_of_buffer) ELSE streak)
    ELSE IF c.op \in {"get", "get_multi", "reset"} THEN 0
    ELSE streak

\* Pumping all items out: "fill" until ring_buffer_get_taken is read, "drain"
\* while ring_buffer_get is called after it (taken = the value read, gets =
\* the gets that returned OK), "done" when a get has returned
\* eRING_BUFFER_EMPTY, "broken" when a get has returned anything else.
NoDrain == [phase |-> "fill", taken |-> 0, gets |-> 0]

NextDrain(c) ==
    IF drain.phase = "fill"
    THEN IF c.op = "get_taken"
         THEN [phase |-> "drain", taken |-> c.out[1], gets |-> 0]
         ELSE drain
    ELSE IF (drain.phase = "drain") /\ (c.op = "get")
    THEN IF c.status = eRING_BUFFER_OK
         THEN [drain EXCEPT !.gets = drain.gets + 1]
         ELSE IF c.status = eRING_BUFFER_EMPTY
         THEN [drain EXCEPT !.phase = "done"]
         ELSE [drain EXCEPT !.phase = "broken"]
    ELSE drain

\* Round trip: "adding" while only ring_buffer_add has been called since the
\* buffer was empty (pending = the items added), "getting" while only
\* ring_buffer_get has been called since (pending = the items still to come),
\* "done" after the last of them, "broken" when an add of the round trip did
\* not return OK or a get did not return OK with the expected item, "idle"
\* outside a round trip.
NextRt(c) ==
    LET ph == IF rt.phase = "done" THEN "adding" ELSE rt.phase
    IN  IF ph = "broken" THEN rt
        ELSE IF c.op = "reset" THEN [phase |-> "adding", pending |-> <<>>]
        ELSE IF c.op = "get_by_index" THEN [phase |-> ph, pending |-> rt.pending]
        ELSE IF c.op = "add" THEN
            IF (ph = "adding") /\ (Len(rt.pending) < size_of_buffer)
            THEN IF c.status = eRING_BUFFER_OK
                 THEN [phase |-> "adding", pending |-> Append(rt.pending, c.items[1])]
                 ELSE [phase |-> "broken", pending |-> <<>>]
            ELSE IF (ph # "adding") /\ (count = 0)
            THEN [phase |-> "adding", pending |-> <<c.items[1]>>]
            ELSE [phase |-> "idle", pending |-> <<>>]
        ELSE IF c.op = "get" THEN
            IF (ph \in {"adding", "getting"}) /\ (rt.pending # <<>>)
            THEN IF (c.status = eRING_BUFFER_OK)
                    /\ (c.out = Flat(<<Head(rt.pending)>>, size_of_item))
                 THEN [phase |-> IF Len(rt.pending) = 1 THEN "done" ELSE "getting",
                       pending |-> Tail(rt.pending)]
                 ELSE [phase |-> "broken", pending |-> <<>>]
            ELSE [phase |-> ph, pending |-> rt.pending]
        ELSE [phase |-> "idle", pending |-> <<>>]

\* A script is a sequence of calls, each [op, v, idx]: the function, the item
\* value added (add) and the index asked for (get_by_index).  pos is the
\* number of calls of the script made so far, nothing else having been called
\* since construction; -1 once the calls have left the script.
Step(op, v, idx) == [op |-> op, v |-> v, idx |-> idx]

NoScript == [steps |-> <<>>, pos |-> 0 - 1]

FollowsStep(c, st) ==
    /\ c.op = st.op
    /\ (c.op = "add") => (c.items = <<st.v>>)
    /\ (c.op = "get_by_index") => (c.idx = st.idx)

NextScript(c) ==
    IF (script.pos >= 0) /\ (script.pos < Len(script.steps))
    THEN IF FollowsStep(c, script.steps[script.pos + 1])
         THEN [script EXCEPT !.pos = script.pos + 1]
         ELSE [script EXCEPT !.pos = 0 - 1]
    ELSE [script EXCEPT !.pos = 0 - 1]

\* the last k elements of a sequence of at least k elements
LastOf(seq, k) == SubSeq(seq, Len(seq) - k + 1, Len(seq))

\* Override law: "getting" after a ring_buffer_add_multi of more than
\* size_of_buffer items with override enabled (pending = the last
\* size_of_buffer of them, less those the calls of ring_buffer_get made since
\* have returned), "broken" when that add_multi did not return OK or one of
\* these gets did not return OK with the first pending item, "idle" otherwise.
NextLaw(c) ==
    IF law.phase = "broken" THEN law
    ELSE IF (c.op = "add_multi") /\ override /\ (c.n > size_of_buffer)
    THEN IF c.status = eRING_BUFFER_OK
         THEN [phase |-> "getting", pending |-> LastOf(c.items, size_of_buffer)]
         ELSE [phase |-> "broken", pending |-> <<>>]
    ELSE IF c.op = "get_by_index" THEN law
    ELSE IF (c.op = "get") /\ (law.phase = "getting")
    THEN IF (c.status = eRING_BUFFER_OK)
            /\ (c.out = Flat(<<Head(law.pending)>>, size_of_item))
         THEN [phase |-> IF Len(law.pending) = 1 THEN "idle" ELSE "getting",
               pending |-> Tail(law.pending)]
         ELSE [phase |-> "broken", pending |-> <<>>]
    ELSE [phase |-> "idle", pending |-> <<>>]

\* The items held, oldest first, had every insertion that returned OK kept
\* the newest size_of_buffer items and every removal that returned OK taken
\* the oldest ones; last is the item added last and added the number of
\* items added since construction or reset, counted up to size_of_buffer.
NextKept(c) ==
    IF c.status # eRING_BUFFER_OK THEN kept
    ELSE IF (c.op \in {"add", "add_multi"}) /\ (c.n >= 1)
    THEN LET all == kept.items \o c.items
         IN  [items |-> IF Len(all) > size_of_buffer
                        THEN LastOf(all, size_of_buffer) ELSE all,
              last  |-> c.items[c.n],
              added |-> Min(kept.added + c.n, size_of_buffer)]
    ELSE IF c.op \in {"get", "get_multi"}
    THEN [kept EXCEPT !.items = IF Len(kept.items) > c.n
                                THEN SubSeq(kept.items, c.n + 1, Len(kept.items))
                                ELSE <<>>]
    ELSE IF c.op = "reset" THEN [items |-> <<>>, last |-> 0, added |-> 0]
    ELSE kept

\* What ring_buffer_get_by_index returned for each index since the last call
\* of another function that returned OK: the bytes of the item, <<>> for an
\* index not read since.
NextSeen(c) ==
    IF c.status # eRING_BUFFER_OK THEN seen
    ELSE IF c.op = "get_by_index" THEN [seen EXCEPT ![c.idx] = c.out]
    ELSE [i \in DOMAIN seen |-> <<>>]

\* a run records one history; the others keep their initial value
History(c) ==
    /\ UNCHANGED <<roles, alloc>>
    /\ drain' = IF ValidArgs(c) /\ (track = "drain") THEN NextDrain(c) ELSE drain
    /\ early' = early
    /\ seen' = IF ValidArgs(c) /\ (track = "seen") THEN NextSeen(c) ELSE seen
    /\ kept' = IF ValidArgs(c) /\ (track = "kept") THEN NextKept(c) ELSE kept
    /\ law' = IF ValidArgs(c) /\ (track = "law") THEN NextLaw(c) ELSE law
    /\ script' = IF ValidArgs(c) /\ (track = "script") THEN NextScript(c) ELSE script
    /\ level' = IF ValidArgs(c) /\ (track = "level") THEN NextLevel(c) ELSE level
    /\ streak' = IF ValidArgs(c) /\ (track = "streak") THEN NextStreak(c) ELSE streak
    /\ rt' = IF ValidArgs(c) /\ (track = "rt") THEN NextRt(c) ELSE rt
    /\ track' = track

\* An index that has left [0, size_of_buffer) can grow with every further
\* call, up to 2^32: the model follows it as far as size_of_buffer, the first
\* index past the last slot.
Followed(h, t) == (h <= size_of_buffer) /\ (t <= size_of_buffer)

\* the end of an API call: the call record, the fields of the instance and
\* the storage as the call leaves them.  A caller passes the instance it has
\* or a null pointer.
Return(c, h, t, cnt, mem, u) ==
    /\ (c.inst = NULL) \/ (p_ring_buffer # NULL)
    /\ u \/ Followed(h, t)
    /\ call' = c
    /\ head' = h
    /\ tail' = t
    /\ count' = cnt
    /\ p_data' = mem
    /\ ub' = u
    /\ History(c)
    /\ UNCHANGED config

\* the end of an API call that touched nothing
Reject(c) == Return(c, head, tail, count, p_data, FALSE)

(***************************************************************************)
(* Construction: the state ring_buffer_init leaves                         *)
(***************************************************************************)
\* the instance as ring_buffer_init leaves it, its size, item size and
\* override attribute being chosen
\* Allocation failures: last is the allocation that failed in the last
\* construction call ("calloc": the instance, "malloc": its storage, "none"),
\* failed says that an allocation has failed and no construction has
\* succeeded since.
NoAlloc == [last |-> "none", failed |-> FALSE]

NextAlloc(fail, ok) ==
    [last   |-> fail,
     failed |-> IF ok THEN FALSE ELSE IF fail # "none" THEN TRUE ELSE alloc.failed]

\* no accessor call recorded
NoEarly == [op |-> "none", result |-> 0]

\* a producer or consumer between two calls: op and status are those of its
\* last call
Idle(op, status) ==
    [pc |-> "idle", op |-> op, items |-> <<>>, n |-> 0, k |-> 0, cnt |-> 0,
     push |-> FALSE, out |-> <<>>, status |-> status]

\* no call is in progress and none has been made
NoRoles ==
    /\ prod = Idle("none", eRING_BUFFER_OK)
    /\ cons = Idle("none", eRING_BUFFER_OK)
    /\ pub = {}
    /\ queue = [items |-> <<>>, next |-> 0]

Constructed ==
    /\ NoRoles
    /\ alloc = NoAlloc
    /\ drain = NoDrain
    /\ p_ring_buffer = PTR
    /\ name = NULL
    /\ early = NoEarly
    /\ is_init = TRUE
    /\ head = 0
    /\ tail = 0
    /\ count = 0
    /\ p_data = [i \in 0..((size_of_buffer * size_of_item) - 1) |-> 0]
    /\ ub = FALSE
    /\ call = Call("init", PTR, PTR, <<>>, 0, 0, eRING_BUFFER_OK, <<>>)
    /\ level = 0
    /\ streak = 0
    /\ rt = [phase |-> "adding", pending |-> <<>>]
    /\ law = [phase |-> "idle", pending |-> <<>>]
    /\ kept = [items |-> <<>>, last |-> 0, added |-> 0]
    /\ seen = [i \in (0 - size_of_buffer)..(size_of_buffer - 1) |-> <<>>]

\* every size up to MaxSize, both override attributes; the run records one of
\* the histories T
InitTracking(T) ==
    /\ size_of_buffer \in 1..MaxSize
    /\ size_of_item = ItemSize
    /\ override \in BOOLEAN
    /\ Constructed
    /\ track \in T
    /\ script = NoScript

Init == InitTracking({"level", "streak", "rt"})

(***************************************************************************)
(* Insertion                                                               *)
(***************************************************************************)
\* the outcomes of ring_buffer_add_single_to_buf for the item value v
ring_buffer_add_single_to_buf(v) ==
    LET w == ring_buffer_memcpy(p_data, U32(head * size_of_item),
                                Flat(<<v>>, size_of_item), 0, size_of_item)
    IN  {[mem   |-> w.mem,
          ub    |-> w.stray # {},
          count |-> ring_buffer_incr_count(f.count, 1),
          head  |-> ring_buffer_increment_index(f.head, size_of_buffer, 1),
          tail  |-> f.tail] : f \in Clobbered(w.stray)}

\* the outcomes of ring_buffer_add_many_to_buf for n items with values items
ring_buffer_add_many_to_buf_unsplit(items, n) ==
    LET w == ring_buffer_memcpy(p_data, U32(head * size_of_item),
                                Flat(items, size_of_item), 0,
                                U32(size_of_item * n))
    IN  {[mem   |-> w.mem,
          ub    |-> w.stray # {},
          count |-> ring_buffer_incr_count(f.count, n),
          head  |-> ring_buffer_increment_index(f.head, size_of_buffer, n),
          tail  |-> f.tail] : f \in Clobbered(w.stray)}

ring_buffer_add_many_to_buf(items, n) ==
    LET src == Flat(items, size_of_item)
        items_till_end == U32(size_of_buffer - head)
        sizeof_items_till_end == U32(size_of_item * items_till_end)
        sizeof_items_from_start == U32((n - items_till_end) * size_of_item)
        w1 == ring_buffer_memcpy(p_data, U32(head * size_of_item), src, 0,
                                 sizeof_items_till_end)
        w2 == ring_buffer_memcpy(w1.mem, 0, src, sizeof_items_till_end,
                                 sizeof_items_from_start)
        w3 == ring_buffer_memcpy(p_data, U32(head * size_of_item), src, 0,
                                 U32(size_of_item * n))
        w  == IF n > items_till_end
              THEN [mem |-> w2.mem, stray |-> w1.stray \cup w2.stray]
              ELSE w3
    IN  {[mem   |-> w.mem,
          ub    |-> w.stray # {},
          count |-> ring_buffer_incr_count(f.count, n),
          head  |-> ring_buffer_increment_index(f.head, size_of_buffer, n),
          tail  |-> f.tail] : f \in Clobbered(w.stray)}

\* the "buffer full" test of ring_buffer_add
add_buffer_full_swapped == size_of_buffer < count

add_buffer_full_one_free == size_of_buffer = count + 1

add_buffer_full == size_of_buffer = count

\* the "override enabled" test of ring_buffer_add and ring_buffer_add_multi
add_override_never == FALSE

add_override_always == TRUE

add_override == TRUE = override

\* ring_buffer_add called with the pointers a and the item value v
ring_buffer_add_of(a, v) ==
        LET inst == a[1]
            p_item == a[2]
        IN
        LET c(st) == Call("add", inst, p_item,
                          IF p_item = NULL THEN <<>> ELSE <<v>>, 1, 0, st, <<>>)
        IN  IF inst = NULL THEN Reject(c(eRING_BUFFER_ERROR_INST))
            ELSE IF ~is_init THEN Reject(c(eRING_BUFFER_ERROR_INIT))
            ELSE IF p_item = NULL THEN Reject(c(eRING_BUFFER_ERROR))
            ELSE IF add_buffer_full
            THEN IF add_override
                 THEN \E r \in ring_buffer_add_single_to_buf(v) :
                        Return(c(eRING_BUFFER_OK), r.head,
                               ring_buffer_increment_index(r.tail, size_of_buffer, 1),
                               r.count, r.mem, r.ub)
                 ELSE Reject(c(eRING_BUFFER_FULL))
            ELSE \E r \in ring_buffer_add_single_to_buf(v) :
                    Return(c(eRING_BUFFER_OK), r.head, r.tail, r.count, r.mem, r.ub)

ring_buffer_add ==
    /\ ~ub
    /\ \E a \in PtrArgs : \E v \in Given(a, ItemIds, 1) : ring_buffer_add_of(a, v)

\* the request sizes the callers of ring_buffer_add_multi use
AddSizes == 0..(2 * size_of_buffer)

\* the "there is space in buffer" test of ring_buffer_add_multi
add_multi_has_space_capacity(n) == n <= ring_buffer_get_size

add_multi_has_space(n) == n <= ring_buffer_get_free

ring_buffer_add_multi ==
    /\ ~ub
    /\ \E a \in PtrArgs : \E v \in Given(a, ItemIds, 1), n \in Given(a, AddSizes, 1) :
        LET inst == a[1]
            p_item == a[2]
        IN
        LET items == IF p_item = NULL THEN <<>> ELSE Ramp(v, n)
            c(st) == Call("add_multi", inst, p_item, items, n, 0, st, <<>>)
        IN  IF inst = NULL THEN Reject(c(eRING_BUFFER_ERROR_INST))
            ELSE IF ~is_init THEN Reject(c(eRING_BUFFER_ERROR_INIT))
            ELSE IF p_item = NULL THEN Reject(c(eRING_BUFFER_ERROR))
            ELSE IF add_multi_has_space(n)
            THEN \E r \in ring_buffer_add_many_to_buf(items, n) :
                    Return(c(eRING_BUFFER_OK), r.head, r.tail, r.count, r.mem, r.ub)
            ELSE IF add_override
            THEN \E r \in ring_buffer_add_many_to_buf(items, n) :
                    Return(c(eRING_BUFFER_OK), r.head,
                           ring_buffer_increment_index(r.tail, size_of_buffer, n),
                           r.count, r.mem, r.ub)
            ELSE Reject(c(eRING_BUFFER_ERROR))

(***************************************************************************)
(* Removal                                                                 *)
(***************************************************************************)
\* the outcome of ring_buffer_get_single_from_buf, g being the byte a load
\* outside the storage yields
ring_buffer_get_single_from_buf(g) ==
    [out   |-> MemRead(p_data, U32(tail * size_of_item), size_of_item, g),
     ub    |-> OobRead(p_data, U32(tail * size_of_item), size_of_item),
     count |-> U32(count - 1),
     tail  |-> ring_buffer_increment_index(tail, size_of_buffer, 1)]

\* the outcome of ring_buffer_get_many_from_buf for n items
ring_buffer_get_many_from_buf(n, g) ==
    LET items_till_end == U32(size_of_buffer - tail)
        sizeof_items_till_end == U32(size_of_item * items_till_end)
        sizeof_items_from_start == U32((n - items_till_end) * size_of_item)
        from == U32(tail * size_of_item)
    IN  [out   |-> IF n > items_till_end
                   THEN MemRead(p_data, from, sizeof_items_till_end, g)
                        \o MemRead(p_data, 0, sizeof_items_from_start, g)
                   ELSE MemRead(p_data, from, U32(size_of_item * n), g),
         ub    |-> IF n > items_till_end
                   THEN OobRead(p_data, from, sizeof_items_till_end)
                        \/ OobRead(p_data, 0, sizeof_items_from_start)
                   ELSE OobRead(p_data, from, U32(size_of_item * n)),
         count |-> U32(count - n),
         tail  |-> ring_buffer_increment_index(tail, size_of_buffer, n)]

\* the "buffer empty" test of ring_buffer_get and ring_buffer_get_multi
get_buffer_empty_full == size_of_buffer = count

get_buffer_empty_last == count <= 1

get_buffer_empty == 0 = count

ring_buffer_get ==
    /\ ~ub
    /\ \E a \in PtrArgs, g \in Loaded(ring_buffer_get_single_from_buf(0).ub) :
        LET inst == a[1]
            p_item == a[2]
        IN
        LET buf == IF p_item = NULL THEN <<>> ELSE FreshBuf(size_of_item)
            c(st, o) == Call("get", inst, p_item, <<>>, 1, 0, st, o)
        IN  IF inst = NULL THEN Reject(c(eRING_BUFFER_ERROR_INST, buf))
            ELSE IF ~is_init THEN Reject(c(eRING_BUFFER_ERROR_INIT, buf))
            ELSE IF p_item = NULL THEN Reject(c(eRING_BUFFER_ERROR, buf))
            ELSE IF get_buffer_empty THEN Reject(c(eRING_BUFFER_EMPTY, buf))
            ELSE LET r == ring_buffer_get_single_from_buf(g)
                 IN  Return(c(eRING_BUFFER_OK, r.out), head, r.tail, r.count,
                            p_data, r.ub)

\* the request sizes the callers of ring_buffer_get_multi use
GetSizes == 0..(size_of_buffer + 1)

\* the "enough items in buffer" test of ring_buffer_get_multi
get_multi_has_items_size(n) == n <= ring_buffer_get_size

get_multi_has_items(n) == n <= ring_buffer_get_taken

ring_buffer_get_multi ==
    /\ ~ub
    /\ \E a \in PtrArgs : \E n \in Given(a, GetSizes, 1) :
       \E g \in Loaded(ring_buffer_get_many_from_buf(n, 0).ub) :
        LET inst == a[1]
            p_item == a[2]
        IN
        LET buf == IF p_item = NULL THEN <<>> ELSE FreshBuf(n * size_of_item)
            c(st, o) == Call("get_multi", inst, p_item, <<>>, n, 0, st, o)
        IN  IF inst = NULL THEN Reject(c(eRING_BUFFER_ERROR_INST, buf))
            ELSE IF ~is_init THEN Reject(c(eRING_BUFFER_ERROR_INIT, buf))
            ELSE IF p_item = NULL THEN Reject(c(eRING_BUFFER_ERROR, buf))
            ELSE IF get_buffer_empty THEN Reject(c(eRING_BUFFER_EMPTY, buf))
            ELSE IF get_multi_has_items(n)
            THEN LET r == ring_buffer_get_many_from_buf(n, g)
                 IN  Return(c(eRING_BUFFER_OK, r.out), head, r.tail, r.count,
                            p_data, r.ub)
            ELSE Reject(c(eRING_BUFFER_ERROR, buf))

(***************************************************************************)
(* Indexed read                                                            *)
(***************************************************************************)
\* (uint32_t) of an int32_t
U32OfI32(i) == IF i < 0 THEN UintModulus + i ELSE i

\* abs() of an int32_t
Abs(i) == IF i < 0 THEN 0 - i ELSE i

ring_buffer_parse_index_unwrapped(idx_req, idx_cur, size) ==
    IF idx_req >= 0
    THEN U32OfI32(idx_req)
    ELSE U32(U32(size + U32OfI32(idx_req)) + idx_cur)

ring_buffer_parse_index(idx_req, idx_cur, size) ==
    LET buf_idx == IF idx_req >= 0
                   THEN U32OfI32(idx_req)
                   ELSE U32(U32(size + U32OfI32(idx_req)) + idx_cur)
    IN  ring_buffer_wrap_index(buf_idx, size)

\* the range check with the upper end included
ring_buffer_check_index_inclusive(idx_req, size) ==
    \/ (idx_req >= 0) /\ (idx_req <= size)
    \/ (idx_req < 0) /\ (Abs(idx_req) <= size)

ring_buffer_check_index(idx_req, size) ==
    \/ (idx_req >= 0) /\ (idx_req < size)
    \/ (idx_req < 0) /\ (Abs(idx_req) <= size)

\* the indices the callers of ring_buffer_get_by_index use
Indices == (0 - (size_of_buffer + 1))..size_of_buffer

\* the read of ring_buffer_get_by_index that also steps tail, as
\* ring_buffer_get_single_from_buf does
get_by_index_read_consuming(idx, g) ==
    LET buf_idx == ring_buffer_parse_index(idx, tail, size_of_buffer)
        from == U32(buf_idx * size_of_item)
    IN  [out  |-> MemRead(p_data, from, size_of_item, g),
         ub   |-> OobRead(p_data, from, size_of_item),
         tail |-> ring_buffer_increment_index(tail, size_of_buffer, 1)]

\* the outcome of the read of ring_buffer_get_by_index for a checked index,
\* g being the byte a load outside the storage yields
get_by_index_read(idx, g) ==
    LET buf_idx == ring_buffer_parse_index(idx, tail, size_of_buffer)
        from == U32(buf_idx * size_of_item)
    IN  [out  |-> MemRead(p_data, from, size_of_item, g),
         ub   |-> OobRead(p_data, from, size_of_item),
         tail |-> tail]

ring_buffer_get_by_index ==
    /\ ~ub
    /\ \E a \in PtrArgs : \E idx \in Given(a, Indices, 0) :
       \E g \in Loaded(get_by_index_read(idx, 0).ub) :
        LET inst == a[1]
            p_item == a[2]
        IN
        LET buf == IF p_item = NULL THEN <<>> ELSE FreshBuf(size_of_item)
            c(st, o) == Call("get_by_index", inst, p_item, <<>>, 1, idx, st, o)
        IN  IF inst = NULL THEN Reject(c(eRING_BUFFER_ERROR_INST, buf))
            ELSE IF ~is_init THEN Reject(c(eRING_BUFFER_ERROR_INIT, buf))
            ELSE IF (p_item # NULL) /\ ring_buffer_check_index(idx, size_of_buffer)
            THEN LET r == get_by_index_read(idx, g)
                 IN  Return(c(eRING_BUFFER_OK, r.out), head, r.tail, count, p_data,
                            r.ub)
            ELSE Reject(c(eRING_BUFFER_ERROR, buf))

(***************************************************************************)
(* Reset                                                                   *)
(***************************************************************************)
\* the "instance is initialized" test of ring_buffer_reset
reset_is_init_unchecked == TRUE

reset_is_init == TRUE = is_init

ring_buffer_reset ==
    /\ ~ub
    /\ \E inst \in {NULL, PTR} :
        LET c(st) == Call("reset", inst, PTR, <<>>, 0, 0, st, <<>>)
        IN  IF inst = NULL THEN Reject(c(eRING_BUFFER_ERROR_INST))
            ELSE IF ~reset_is_init THEN Reject(c(eRING_BUFFER_ERROR_INIT))
            ELSE Return(c(eRING_BUFFER_OK), 0, 0, 0, ring_buffer_clear_mem(p_data),
                        FALSE)

(***************************************************************************)
(* Construction: ring_buffer_init and ring_buffer_init_static              *)
(***************************************************************************)
\* the instance before any construction: no instance behind the handle, or
\* an instance of static storage duration, all of whose fields are zero
Unconstructed ==
    /\ NoRoles
    /\ alloc = NoAlloc
    /\ drain = NoDrain
    /\ p_ring_buffer \in {NULL, PTR}
    /\ name = NULL
    /\ size_of_buffer = 0
    /\ size_of_item = 0
    /\ override = FALSE
    /\ is_init = FALSE
    /\ head = 0
    /\ tail = 0
    /\ count = 0
    /\ p_data = <<>>
    /\ ub = FALSE
    /\ call = Call("none", NULL, NULL, <<>>, 0, 0, eRING_BUFFER_OK, <<>>)
    /\ level = 0
    /\ streak = 0
    /\ rt = [phase |-> "adding", pending |-> <<>>]
    /\ law = [phase |-> "idle", pending |-> <<>>]
    /\ kept = [items |-> <<>>, last |-> 0, added |-> 0]
    /\ seen = <<>>
    /\ early = NoEarly
    /\ script = NoScript

\* the sizes the callers construct an instance with
Sizes == 0..MaxSize

\* The attributes the callers pass (ring_buffer_attr_t).  p_mem is NULL or a
\* region of the caller, of size * item_size bytes, each of which holds fill
\* when the region is handed over.  given: p_attr is not a null pointer.
Attr(nm, mem, fill, ov) ==
    [given |-> TRUE, name |-> nm, p_mem |-> mem, fill |-> fill,
     item_size |-> ItemSize, override |-> ov]

\* p_attr = NULL
NoAttr ==
    [given |-> FALSE, name |-> NULL, p_mem |-> NULL, fill |-> 0, item_size |-> 0,
     override |-> FALSE]

Attrs ==
    {Attr("buf", NULL, 0, FALSE), Attr(NULL, NULL, 0, TRUE),
     Attr("buf", PTR, 255, TRUE), Attr(NULL, PTR, 0, FALSE)}

\* a region of sz bytes that hold fill
Region(sz, fill) == [i \in 0..(sz - 1) |-> fill]

\* the end of a construction call: the call record, the handle and every
\* field of the instance as the call leaves them.  The histories start anew.
Built(c, h, nm, sz, isz, ov, init, mem) ==
    /\ call' = c
    /\ p_ring_buffer' = h
    /\ name' = nm
    /\ size_of_buffer' = sz
    /\ size_of_item' = isz
    /\ override' = ov
    /\ is_init' = init
    /\ head' = 0
    /\ tail' = 0
    /\ count' = 0
    /\ p_data' = mem
    /\ ub' = FALSE
    /\ level' = 0
    /\ streak' = 0
    /\ rt' = [phase |-> "adding", pending |-> <<>>]
    /\ law' = [phase |-> "idle", pending |-> <<>>]
    /\ kept' = [items |-> <<>>, last |-> 0, added |-> 0]
    /\ seen' = [i \in (0 - sz)..(sz - 1) |-> <<>>]
    /\ UNCHANGED <<track, script, early, roles, drain>>

\* the end of a construction call that touched nothing but the handle
Refused(c, h) ==
    /\ call' = c
    /\ p_ring_buffer' = h
    /\ UNCHANGED <<name, size_of_buffer, size_of_item, override, is_init, head,
                   tail, count, p_data, ub, track, level, streak, rt, script,
                   law, kept, seen, early, roles, drain>>

\* the outcome of ring_buffer_default_setup; allocated: malloc returned memory
ring_buffer_default_setup_unchecked(size, allocated) ==
    [name     |-> NULL,
     item     |-> 1,
     override |-> FALSE,
     mem      |-> IF allocated THEN Region(U32(size), 0) ELSE <<>>,
     status   |-> eRING_BUFFER_OK]

ring_buffer_default_setup(size, allocated) ==
    [name     |-> NULL,
     item     |-> 1,
     override |-> FALSE,
     mem      |-> IF allocated THEN Region(U32(size), 0) ELSE <<>>,
     status   |-> IF allocated THEN eRING_BUFFER_OK ELSE eRING_BUFFER_ERROR_MEM]

\* the outcome of ring_buffer_custom_setup
ring_buffer_custom_setup(size, attr, allocated) ==
    [name     |-> attr.name,
     item     |-> attr.item_size,
     override |-> attr.override,
     mem      |-> IF attr.p_mem # NULL
                  THEN Region(U32(size * attr.item_size), attr.fill)
                  ELSE IF allocated THEN Region(U32(size * attr.item_size), 0)
                  ELSE <<>>,
     status   |-> IF (attr.p_mem # NULL) \/ allocated
                  THEN eRING_BUFFER_OK ELSE eRING_BUFFER_ERROR_MEM]

\* the "instance not allocated yet" test of ring_buffer_init
init_not_allocated == NULL = p_ring_buffer

\* ring_buffer_init: pp is the pointer to the caller's handle; calloc and
\* malloc return memory or fail
ring_buffer_init ==
    /\ ~ub
    /\ \E pp \in {NULL, PTR} :
       \E size \in Reached((pp # NULL) /\ init_not_allocated, Sizes, 0),
          p_attr \in Reached((pp # NULL) /\ init_not_allocated,
                             {NoAttr} \cup Attrs, NoAttr),
          calloc_ok \in BOOLEAN, malloc_ok \in BOOLEAN :
        LET c(st) == Call("init", pp, PTR, <<>>, size, 0, st, <<>>)
            setup == IF ~p_attr.given
                     THEN ring_buffer_default_setup(size, malloc_ok)
                     ELSE ring_buffer_custom_setup(size, p_attr, malloc_ok)
            called == (pp # NULL) /\ init_not_allocated
            fail == IF ~called THEN "none"
                    ELSE IF ~calloc_ok THEN "calloc"
                    ELSE IF ((~p_attr.given) \/ (p_attr.p_mem = NULL)) /\ ~malloc_ok
                    THEN "malloc" ELSE "none"
        IN  /\ IF pp = NULL
               THEN Refused(c(eRING_BUFFER_ERROR_INST), p_ring_buffer)
               ELSE IF ~init_not_allocated
               THEN Refused(c(eRING_BUFFER_ERROR_INIT), p_ring_buffer)
               ELSE IF ~calloc_ok THEN Refused(c(eRING_BUFFER_ERROR_MEM), NULL)
               ELSE Built(c(setup.status), PTR, setup.name, size, setup.item,
                          setup.override, setup.status = eRING_BUFFER_OK,
                          setup.mem)
            /\ alloc' = NextAlloc(fail, called /\ calloc_ok
                                            /\ (setup.status = eRING_BUFFER_OK))

\* ring_buffer_init_static: buf_inst is the instance of the caller, if there
\* is one, or a null pointer
ring_buffer_init_static ==
    /\ ~ub
    /\ \E buf_inst \in {NULL, p_ring_buffer} :
       \E p_attr \in Reached(buf_inst # NULL, {NoAttr} \cup Attrs, NoAttr) :
       \E size \in Reached((buf_inst # NULL) /\ (p_attr.p_mem # NULL), Sizes, 0) :
        LET c(st) == Call("init_static", buf_inst, PTR, <<>>, size, 0, st, <<>>)
            valid == (buf_inst # NULL) /\ p_attr.given /\ (p_attr.p_mem # NULL)
        IN  /\ IF valid
               THEN Built(c(eRING_BUFFER_OK), p_ring_buffer, p_attr.name, size,
                          p_attr.item_size, p_attr.override, TRUE,
                          Region(U32(size * p_attr.item_size), p_attr.fill))
               ELSE Refused(c(eRING_BUFFER_ERROR_INST), p_ring_buffer)
            /\ alloc' = NextAlloc("none", valid)

(***************************************************************************)
(* Calls of the accessors                                                  *)
(***************************************************************************)
Accessors ==
    {"get_name", "get_taken", "get_free", "get_size", "get_item_size", "is_full",
     "is_empty"}

\* the value the accessor op returns for the instance
AccessorResult(op) ==
    CASE op = "get_name" -> ring_buffer_get_name
      [] op = "get_taken" -> ring_buffer_get_taken
      [] op = "get_free" -> ring_buffer_get_free
      [] op = "get_size" -> ring_buffer_get_size
      [] op = "get_item_size" -> ring_buffer_get_item_size
      [] op = "is_full" -> ring_buffer_is_full
      [] op = "is_empty" -> ring_buffer_is_empty

\* an accessor returns a value and no status
NoStatus == 0 - 1

\* the first accessor call made before a construction succeeded, and the
\* value it returned
NextEarly(c) ==
    IF (~is_init) /\ (early.op = "none")
    THEN [op |-> c.op, result |-> c.out[1]]
    ELSE early

\* a call of an accessor with the handle of the caller: out is the value
\* returned
ring_buffer_accessor ==
    /\ ~ub
    /\ \E op \in Accessors :
        LET c == Call(op, p_ring_buffer, PTR, <<>>, 0, 0, NoStatus,
                      <<AccessorResult(op)>>)
        IN  /\ call' = c
            /\ early' = IF track = "early" THEN NextEarly(c) ELSE early
            /\ drain' = IF track = "drain" THEN NextDrain(c) ELSE drain
            /\ alloc' = alloc
            /\ UNCHANGED <<p_ring_buffer, name, size_of_buffer, size_of_item,
                           override, is_init, head, tail, count, p_data, ub,
                           track, level, streak, rt, script, law, kept, seen,
                           roles>>

\* the conversion of a ring_buffer_status_t to bool: every value but 0 is true
ToBool(x) == x # 0

\* what ring_buffer_is_init returns for buf_inst, the caller's instance or a
\* null pointer
ring_buffer_is_init(buf_inst) ==
    IF NULL # buf_inst THEN is_init ELSE ToBool(eRING_BUFFER_ERROR_INST)

\* a call of ring_buffer_is_init with the handle of the caller or a null
\* pointer: out is the value returned
ring_buffer_is_init_call ==
    /\ ~ub
    /\ \E buf_inst \in {NULL, p_ring_buffer} :
           call' = Call("is_init", buf_inst, PTR, <<>>, 0, 0, NoStatus,
                        <<ring_buffer_is_init(buf_inst)>>)
    /\ UNCHANGED <<p_ring_buffer, name, size_of_buffer, size_of_item, override,
                   is_init, head, tail, count, p_data, ub, track, level, streak,
                   rt, script, law, kept, seen, early, roles, drain, alloc>>

(***************************************************************************)
(* The specification: any sequence of API calls on one instance            *)
(***************************************************************************)
Next ==
    \/ ring_buffer_add
    \/ ring_buffer_add_multi
    \/ ring_buffer_get
    \/ ring_buffer_get_multi
    \/ ring_buffer_get_by_index
    \/ ring_buffer_reset

Spec == Init /\ [][Next]_vars

\* the same instance and calls, observed by the history of the override law
LawInit == InitTracking({"law"})

LawSpec == LawInit /\ [][Next]_vars

\* the same instance and calls, observed by the history of the items held
KeptInit == InitTracking({"kept"})

KeptSpec == KeptInit /\ [][Next]_vars

\* the same instance and calls, observed by the history of the successful adds
StreakInit == InitTracking({"streak"})

StreakSpec == StreakInit /\ [][Next]_vars

\* the same instance and calls, observed by the history of the indexed reads
SeenInit == InitTracking({"seen"})

SeenSpec == SeenInit /\ [][Next]_vars

\* the life of an instance: from before its construction on, any sequence
\* of constructions and API calls
LifeInit ==
    /\ Unconstructed
    /\ track = "none"

LifeNext ==
    \/ ring_buffer_init
    \/ ring_buffer_init_static
    \/ Next

LifeSpec == LifeInit /\ [][LifeNext]_vars

\* the life of an instance with calls of the accessors, of ring_buffer_add
\* and of ring_buffer_get, observed by the history of the early accessor call
AccessorInit ==
    /\ Unconstructed
    /\ track = "early"

AccessorNext ==
    \/ ring_buffer_init
    \/ ring_buffer_init_static
    \/ ring_buffer_accessor
    \/ ring_buffer_add
    \/ ring_buffer_get

AccessorSpec == AccessorInit /\ [][AccessorNext]_vars

(***************************************************************************)
(* Single calls applied to the fields of an instance, st being the record  *)
(* of head, tail, count and the storage mem: what a sequence of            *)
(* ring_buffer_add or ring_buffer_get calls with valid arguments makes of  *)
(* them                                                                    *)
(***************************************************************************)
\* head, tail, count and the storage of the instance
Fields == [head |-> head, tail |-> tail, count |-> count, mem |-> p_data]

\* ring_buffer_add of the item value v
add_on(st, v) ==
    LET added ==
            [mem   |-> ring_buffer_memcpy(st.mem, U32(st.head * size_of_item),
                                          Flat(<<v>>, size_of_item), 0,
                                          size_of_item).mem,
             count |-> ring_buffer_incr_count(st.count, 1),
             head  |-> ring_buffer_increment_index(st.head, size_of_buffer, 1),
             tail  |-> st.tail]
    IN  IF size_of_buffer = st.count
        THEN IF add_override
             THEN [added EXCEPT !.tail =
                      ring_buffer_increment_index(st.tail, size_of_buffer, 1)]
             ELSE st
        ELSE added

\* ring_buffer_add of each of items, in order
RECURSIVE Adds(_, _)
Adds(st, items) ==
    IF items = <<>> THEN st ELSE Adds(add_on(st, Head(items)), Tail(items))

\* ring_buffer_get: the fields after the call and the bytes copied out
get_on(st) ==
    IF 0 = st.count THEN [st |-> st, out |-> <<>>]
    ELSE [st  |-> [st EXCEPT
                      !.count = U32(st.count - 1),
                      !.tail = ring_buffer_increment_index(st.tail,
                                                           size_of_buffer, 1)],
          out |-> MemRead(st.mem, U32(st.tail * size_of_item), size_of_item, 0)]

\* n calls of ring_buffer_get, the outputs one after the other
RECURSIVE Gets(_, _)
Gets(st, n) ==
    IF n = 0 THEN [st |-> st, out |-> <<>>]
    ELSE LET g == get_on(st)
             r == Gets(g.st, n - 1)
         IN  [st |-> r.st, out |-> g.out \o r.out]

\* the initialization flag read before, between and after constructions
FlagNext ==
    \/ ring_buffer_init
    \/ ring_buffer_init_static
    \/ ring_buffer_is_init_call
    \/ ring_buffer_add
    \/ ring_buffer_get

FlagSpec == LifeInit /\ [][FlagNext]_vars

\* pumping all items out: any calls, then ring_buffer_get_taken, then
\* ring_buffer_get with valid arguments until it returns eRING_BUFFER_EMPTY
DrainInit == InitTracking({"drain"})

DrainNext ==
    \/ (drain.phase = "fill") /\ Next
    \/ (drain.phase = "fill") /\ ring_buffer_accessor
    \/ (drain.phase = "drain") /\ ring_buffer_get /\ ValidArgs(call')

DrainSpec == DrainInit /\ [][DrainNext]_vars

\* the same instance and calls, no history recorded
ApiInit == InitTracking({"none"})

ApiSpec == ApiInit /\ [][Next]_vars

(***************************************************************************)
(* Scenarios: one instance of a given size and override attribute, with    *)
(* single adds of distinguishable items and single gets, the calls being   *)
(* compared with a script                                                  *)
(***************************************************************************)
\* the item values of a scenario
ScenarioItems == 1..5

\* size 3, override: add(1), add(2), add(3), add(4), get
OverrideScenario ==
    <<Step("add", 1, 0), Step("add", 2, 0), Step("add", 3, 0), Step("add", 4, 0),
      Step("get", 0, 0)>>

\* size 4, items of one byte, no override: add(1), add(2), add(3), get,
\* add(4), add(5), get_by_index(-1)
FifoScenario ==
    <<Step("add", 1, 0), Step("add", 2, 0), Step("add", 3, 0), Step("get", 0, 0),
      Step("add", 4, 0), Step("add", 5, 0), Step("get_by_index", 0, 0 - 1)>>

\* the instances of the scenarios and the calls of each
Scenarios ==
    {[size |-> 3, item_size |-> ItemSize, override |-> TRUE,
      steps |-> OverrideScenario],
     [size |-> 4, item_size |-> 1, override |-> FALSE, steps |-> FifoScenario]}

ScenarioInit ==
    \E s \in Scenarios :
        /\ size_of_buffer = s.size
        /\ size_of_item = s.item_size
        /\ override = s.override
        /\ Constructed
        /\ track = "script"
        /\ script = [steps |-> s.steps, pos |-> 0]

\* a run of a scenario ends with the first call that is not the scenario's
InScript == script.pos >= 0

ScenarioAdd ==
    /\ ~ub
    /\ InScript
    /\ \E v \in ScenarioItems : ring_buffer_add_of(<<PTR, PTR>>, v)

ScenarioGet == InScript /\ ring_buffer_get

ScenarioGetByIndex == InScript /\ ring_buffer_get_by_index

ScenarioNext ==
    \/ ScenarioAdd
    \/ ScenarioGet
    \/ ScenarioGetByIndex

ScenarioSpec == ScenarioInit /\ [][ScenarioNext]_vars

(***************************************************************************)
(* Producer and consumer: one context calls ring_buffer_add and            *)
(* ring_buffer_add_multi, another calls ring_buffer_get and                *)
(* ring_buffer_get_multi, on the same instance and with valid arguments.   *)
(* A step is one load or store of ring_buffer_memcpy's byte loop, one      *)
(* atomic operation on count, or one store to head or tail; each context   *)
(* takes its steps in the order of its code (the COMPILER_BARRIER between  *)
(* the copy and the count update keeps that order in the build, on the     *)
(* single core the comments of the code assume).                           *)
(***************************************************************************)
\* the variables no step of a producer or consumer touches
quiet == <<config, call, track, level, streak, rt, script, law, kept, seen,
           early, drain, alloc>>

\* the item counts of the bulk calls of the producer and the consumer
ConcSizes == 1..(size_of_buffer + 1)

\* the steps of ring_buffer_add_single_to_buf and ring_buffer_add_many_to_buf
\* in the order of the code: copy, count update, head update
add_order_count_first == <<"count", "copy", "head">>

add_order == <<"copy", "count", "head">>

\* the steps of ring_buffer_get_single_from_buf and
\* ring_buffer_get_many_from_buf in the order of the code
get_order == <<"copy", "count", "tail">>

\* the role r after the last step of its stage r.pc: the next stage of order;
\* after the last stage the call returns OK, the producer that found the
\* buffer full and overrides pushing the tail first
Advance(r, order) ==
    LET i == CHOOSE j \in 1..Len(order) : order[j] = r.pc
    IN  IF i < Len(order) THEN [r EXCEPT !.pc = order[i + 1], !.k = 0]
        ELSE IF r.push THEN [r EXCEPT !.pc = "push"]
        ELSE Idle(r.op, eRING_BUFFER_OK)

\* byte offset in the storage of byte k (from 0) of the n items that
\* ring_buffer_add_single_to_buf (op "add") or ring_buffer_add_many_to_buf
\* copies in
add_dst(op, n, k) ==
    LET items_till_end == U32(size_of_buffer - head)
        sizeof_items_till_end == U32(size_of_item * items_till_end)
    IN  IF (op = "add_multi") /\ (n > items_till_end)
           /\ (k >= sizeof_items_till_end)
        THEN k - sizeof_items_till_end
        ELSE U32(head * size_of_item) + k

\* byte offset in the storage of byte k (from 0) of the n items that
\* ring_buffer_get_single_from_buf (op "get") or ring_buffer_get_many_from_buf
\* copies out
get_src_from_start(op, n, k) == k

get_src(op, n, k) ==
    LET items_till_end == U32(size_of_buffer - tail)
        sizeof_items_till_end == U32(size_of_item * items_till_end)
    IN  IF (op = "get_multi") /\ (n > items_till_end)
           /\ (k >= sizeof_items_till_end)
        THEN k - sizeof_items_till_end
        ELSE U32(tail * size_of_item) + k

\* the slot of the byte offset off
SlotOf(off) == off \div size_of_item

\* history: the n items of the producer's call become visible in their slots
Publish ==
    LET slot(j) == SlotOf(add_dst(prod.op, prod.n, (j - 1) * size_of_item))
        slots == {slot(j) : j \in 1..prod.n}
    IN  {q \in pub : q[1] \notin slots}
            \cup {<<slot(j), prod.items[j]>> : j \in 1..prod.n}

\* the histories of the accepted items: "queue" holds them in the order of
\* their count updates, "ticket" numbers them as well
Queued == {"queue", "ticket"}

\* the ticket numbers: more than the queue ever holds
Tickets == (2 * size_of_buffer) + 1

\* history: the n items of the producer's call are accepted
Accept ==
    IF track \in Queued
    THEN [items |-> queue.items \o
                        [j \in 1..prod.n |->
                            <<prod.items[j],
                              IF track = "ticket"
                              THEN (queue.next + j - 1) % Tickets ELSE 0>>],
          next  |-> IF track = "ticket"
                    THEN (queue.next + prod.n) % Tickets ELSE 0]
    ELSE queue

\* history: the consumer's call returns its n items
Serve ==
    IF track \in Queued
    THEN [queue EXCEPT !.items =
              IF Len(queue.items) >= cons.n
              THEN SubSeq(queue.items, cons.n + 1, Len(queue.items))
              ELSE <<>>]
    ELSE queue

\* the producer calls ring_buffer_add or ring_buffer_add_multi
producer_call ==
    /\ prod.pc = "idle"
    /\ \E op \in {"add", "add_multi"}, v \in ItemIds :
           \E n \in IF op = "add" THEN {1} ELSE ConcSizes :
               prod' = [Idle(op, eRING_BUFFER_OK) EXCEPT
                            !.pc = "test", !.items = Ramp(v, n), !.n = n]
    /\ UNCHANGED <<head, tail, count, p_data, ub, cons, pub, queue, quiet>>

\* the load of count in ring_buffer_add (the "buffer full" test) and in
\* ring_buffer_add_multi (ring_buffer_get_free)
producer_test ==
    /\ prod.pc = "test"
    /\ LET room == IF prod.op = "add" THEN ~add_buffer_full
                   ELSE add_multi_has_space(prod.n)
       IN  prod' = IF room THEN [prod EXCEPT !.pc = add_order[1]]
                   ELSE IF add_override
                   THEN [prod EXCEPT !.pc = add_order[1], !.push = TRUE]
                   ELSE Idle(prod.op, IF prod.op = "add" THEN eRING_BUFFER_FULL
                                      ELSE eRING_BUFFER_ERROR)
    /\ UNCHANGED <<head, tail, count, p_data, ub, cons, pub, queue, quiet>>

\* one store of ring_buffer_memcpy into the storage
producer_copy ==
    /\ prod.pc = "copy"
    /\ LET dst == add_dst(prod.op, prod.n, prod.k)
           byte == Flat(prod.items, size_of_item)[prod.k + 1]
       IN  /\ p_data' = IF dst \in DOMAIN p_data
                        THEN [p_data EXCEPT ![dst] = byte] ELSE p_data
           /\ ub' = (ub \/ (dst \notin DOMAIN p_data))
           /\ prod' = IF prod.k + 1 = U32(size_of_item * prod.n)
                      THEN Advance(prod, add_order)
                      ELSE [prod EXCEPT !.k = prod.k + 1]
    /\ UNCHANGED <<head, tail, count, cons, pub, queue, quiet>>

\* ring_buffer_incr_count: the atomic_fetch_add, or with override the
\* atomic_load of count
producer_count ==
    /\ prod.pc = "count"
    /\ IF override
       THEN /\ prod' = [prod EXCEPT !.pc = "store", !.cnt = count]
            /\ UNCHANGED <<count, pub, queue>>
       ELSE /\ count' = ring_buffer_incr_count(count, prod.n)
            /\ pub' = Publish
            /\ queue' = Accept
            /\ prod' = Advance(prod, add_order)
    /\ UNCHANGED <<head, tail, p_data, ub, cons, quiet>>

\* ring_buffer_incr_count with override: the atomic_store of the new count
producer_store ==
    /\ prod.pc = "store"
    /\ count' = ring_buffer_incr_count(prod.cnt, prod.n)
    /\ pub' = Publish
    /\ queue' = Accept
    /\ prod' = Advance([prod EXCEPT !.pc = "count"], add_order)
    /\ UNCHANGED <<head, tail, p_data, ub, cons, quiet>>

\* the store to head
producer_head ==
    /\ prod.pc = "head"
    /\ head' = ring_buffer_increment_index(head, size_of_buffer, prod.n)
    /\ prod' = Advance(prod, add_order)
    /\ UNCHANGED <<tail, count, p_data, ub, cons, pub, queue, quiet>>

\* "push tail forward": the store to tail of the overriding producer
producer_push ==
    /\ prod.pc = "push"
    /\ tail' = ring_buffer_increment_index(tail, size_of_buffer, prod.n)
    /\ prod' = Idle(prod.op, eRING_BUFFER_OK)
    /\ UNCHANGED <<head, count, p_data, ub, cons, pub, queue, quiet>>

\* the consumer calls ring_buffer_get or ring_buffer_get_multi
consumer_call ==
    /\ cons.pc = "idle"
    /\ \E op \in {"get", "get_multi"} :
           \E n \in IF op = "get" THEN {1} ELSE ConcSizes :
               cons' = [Idle(op, eRING_BUFFER_OK) EXCEPT !.pc = "test", !.n = n]
    /\ UNCHANGED <<head, tail, count, p_data, ub, prod, pub, queue, quiet>>

\* the load of count in the "buffer empty" test
consumer_test ==
    /\ cons.pc = "test"
    /\ cons' = IF get_buffer_empty THEN Idle(cons.op, eRING_BUFFER_EMPTY)
               ELSE IF cons.op = "get" THEN [cons EXCEPT !.pc = get_order[1]]
               ELSE [cons EXCEPT !.pc = "taken"]
    /\ UNCHANGED <<head, tail, count, p_data, ub, prod, pub, queue, quiet>>

\* the load of count in ring_buffer_get_multi's ring_buffer_get_taken
consumer_taken ==
    /\ cons.pc = "taken"
    /\ cons' = IF get_multi_has_items(cons.n)
               THEN [cons EXCEPT !.pc = get_order[1]]
               ELSE Idle(cons.op, eRING_BUFFER_ERROR)
    /\ UNCHANGED <<head, tail, count, p_data, ub, prod, pub, queue, quiet>>

\* one iteration of ring_buffer_memcpy(p_item, &p_data[..], ..): the byte at
\* offset src of the storage mem goes to the caller's buffer; a load outside
\* the storage yields g
get_memcpy_reversed(mem, src, g) ==
    [mem  |-> IF src \in DOMAIN mem THEN [mem EXCEPT ![src] = 0 - 1] ELSE mem,
     byte |-> 0 - 1]

get_memcpy(mem, src, g) ==
    [mem  |-> mem,
     byte |-> IF src \in DOMAIN mem THEN mem[src] ELSE g]

\* one load of ring_buffer_memcpy from the storage; history: an item whose
\* last byte is copied out is no longer held by its slot
consumer_copy ==
    /\ cons.pc = "copy"
    /\ LET src == get_src(cons.op, cons.n, cons.k)
           whole == (cons.k + 1) % size_of_item = 0
       IN  /\ \E g \in Loaded(src \notin DOMAIN p_data) :
                  LET c == get_memcpy(p_data, src, g)
                      r == [cons EXCEPT !.out = Append(cons.out, c.byte)]
                  IN  /\ cons' = IF cons.k + 1 = U32(size_of_item * cons.n)
                                 THEN Advance(r, get_order)
                                 ELSE [r EXCEPT !.k = cons.k + 1]
                      /\ p_data' = c.mem
           /\ ub' = (ub \/ (src \notin DOMAIN p_data))
           /\ pub' = IF whole THEN {q \in pub : q[1] # SlotOf(src)} ELSE pub
    /\ UNCHANGED <<head, tail, count, prod, queue, quiet>>

\* the atomic_fetch_sub on count
consumer_count_skipped ==
    /\ cons.pc = "count"
    /\ count' = count
    /\ cons' = Advance(cons, get_order)
    /\ UNCHANGED <<head, tail, p_data, ub, prod, pub, queue, quiet>>

consumer_count ==
    /\ cons.pc = "count"
    /\ count' = U32(count - cons.n)
    /\ cons' = Advance(cons, get_order)
    /\ UNCHANGED <<head, tail, p_data, ub, prod, pub, queue, quiet>>

\* the store to tail
consumer_tail ==
    /\ cons.pc = "tail"
    /\ tail' = ring_buffer_increment_index(tail, size_of_buffer, cons.n)
    /\ cons' = Advance(cons, get_order)
    /\ queue' = Serve
    /\ UNCHANGED <<head, count, p_data, ub, prod, pub, quiet>>

\* an instance without override, its producer and its consumer
ConcInit ==
    /\ size_of_buffer \in 1..MaxSize
    /\ size_of_item = ItemSize
    /\ override = FALSE
    /\ Constructed
    /\ track = "none"
    /\ script = NoScript

ConcNext ==
    \/ producer_call
    \/ producer_test
    \/ producer_copy
    \/ producer_count
    \/ producer_head
    \/ consumer_call
    \/ consumer_test
    \/ consumer_taken
    \/ consumer_copy
    \/ consumer_count
    \/ consumer_tail

ConcSpec == ConcInit /\ [][ConcNext]_vars

\* the same instance, producer and consumer, the accepted items recorded
FifoInit ==
    /\ size_of_buffer \in 1..MaxSize
    /\ size_of_item = ItemSize
    /\ override = FALSE
    /\ Constructed
    /\ track = "queue"
    /\ script = NoScript

FifoSpec == FifoInit /\ [][ConcNext]_vars

\* the consumer calls ring_buffer_reset
consumer_reset ==
    /\ cons.pc = "idle"
    /\ cons' = [Idle("reset", eRING_BUFFER_OK) EXCEPT !.pc = "reset_head"]
    /\ UNCHANGED <<head, tail, count, p_data, ub, prod, pub, queue, quiet>>

\* ring_buffer_reset: the store to head
consumer_reset_head ==
    /\ cons.pc = "reset_head"
    /\ head' = 0
    /\ cons' = [cons EXCEPT !.pc = "reset_tail"]
    /\ UNCHANGED <<tail, count, p_data, ub, prod, pub, queue, quiet>>

\* ring_buffer_reset: the store to tail
consumer_reset_tail ==
    /\ cons.pc = "reset_tail"
    /\ tail' = 0
    /\ cons' = [cons EXCEPT !.pc = "reset_count"]
    /\ UNCHANGED <<head, count, p_data, ub, prod, pub, queue, quiet>>

\* ring_buffer_reset: the atomic_store of count; history: no item is held
\* any more
consumer_reset_count ==
    /\ cons.pc = "reset_count"
    /\ count' = 0
    /\ pub' = {}
    /\ cons' = [cons EXCEPT !.pc = "reset_mem", !.k = 0]
    /\ UNCHANGED <<head, tail, p_data, ub, prod, queue, quiet>>

\* ring_buffer_clear_mem: the memset, one byte of the storage
consumer_reset_mem ==
    /\ cons.pc = "reset_mem"
    /\ p_data' = [p_data EXCEPT ![cons.k] = ring_buffer_clear_mem(p_data)[cons.k]]
    /\ cons' = IF cons.k + 1 = U32(size_of_buffer * size_of_item)
               THEN Idle("reset", eRING_BUFFER_OK)
               ELSE [cons EXCEPT !.k = cons.k + 1]
    /\ UNCHANGED <<head, tail, count, ub, prod, pub, queue, quiet>>

\* the consumer has returned from ring_buffer_reset: a run is followed up to
\* the calls in progress at the first return of a reset
Wiped == (cons.pc = "idle") /\ (cons.op = "reset")

\* producer and consumer on an instance without override, the consumer
\* calling ring_buffer_reset as well
RoleNext ==
    \/ ~Wiped /\ producer_call
    \/ producer_test
    \/ producer_copy
    \/ producer_count
    \/ producer_head
    \/ ~Wiped /\ consumer_call
    \/ consumer_test
    \/ consumer_taken
    \/ consumer_copy
    \/ consumer_count
    \/ consumer_tail
    \/ ~Wiped /\ consumer_reset
    \/ consumer_reset_head
    \/ consumer_reset_tail
    \/ consumer_reset_count
    \/ consumer_reset_mem

RoleSpec == ConcInit /\ [][RoleNext]_vars

\* the producer calls ring_buffer_add with a new item
producer_add ==
    /\ prod.status # eRING_BUFFER_FULL
    /\ producer_call
    /\ prod'.op = "add"

\* the producer calls ring_buffer_add again after eRING_BUFFER_FULL
producer_retry ==
    /\ prod.status = eRING_BUFFER_FULL
    /\ producer_call
    /\ prod'.op = "add"

\* the consumer calls ring_buffer_get
consumer_get ==
    /\ consumer_call
    /\ cons'.op = "get"

\* the steps the producer takes when it is scheduled: those of the call in
\* progress, and the retry after eRING_BUFFER_FULL
producer_run ==
    \/ producer_retry
    \/ producer_test
    \/ producer_copy
    \/ producer_count
    \/ producer_head

\* the steps the consumer takes when it is scheduled: the next call of
\* ring_buffer_get and the steps of the call in progress
consumer_run ==
    \/ consumer_get
    \/ consumer_test
    \/ consumer_copy
    \/ consumer_count
    \/ consumer_tail

\* an instance without override, its accepted items numbered
ProgressInit ==
    /\ size_of_buffer \in 1..MaxSize
    /\ size_of_item = ItemSize
    /\ override = FALSE
    /\ Constructed
    /\ track = "ticket"
    /\ script = NoScript

ProgressNext ==
    \/ producer_add
    \/ producer_retry
    \/ producer_test
    \/ producer_copy
    \/ producer_count
    \/ producer_head
    \/ consumer_get
    \/ consumer_test
    \/ consumer_copy
    \/ consumer_count
    \/ consumer_tail

\* a producer that retries after eRING_BUFFER_FULL and a consumer that keeps
\* calling ring_buffer_get, both scheduled again and again
ProgressSpec ==
    /\ ProgressInit
    /\ [][ProgressNext]_vars
    /\ WF_vars(producer_run)
    /\ WF_vars(consumer_run)

\* a producer and a consumer on an instance with or without override
RaceInit ==
    /\ size_of_buffer \in 1..MaxSize
    /\ size_of_item = ItemSize
    /\ override \in BOOLEAN
    /\ Constructed
    /\ track = "none"
    /\ script = NoScript

\* no access has left the storage, and count and the indices are at most the
\* size: the runs are followed up to the calls in progress when this fails
Sound == ~ub /\ Followed(head, tail) /\ (count <= size_of_buffer)

RaceNext ==
    \/ Sound /\ producer_call
    \/ producer_test
    \/ producer_copy
    \/ producer_count
    \/ producer_store
    \/ producer_head
    \/ producer_push
    \/ Sound /\ consumer_call
    \/ consumer_test
    \/ consumer_taken
    \/ consumer_copy
    \/ consumer_count
    \/ consumer_tail

RaceSpec == RaceInit /\ [][RaceNext]_vars

TypeOK ==
    /\ size_of_buffer \in 1..MaxSize
    /\ level \in 0..size_of_buffer
    /\ streak \in 0..size_of_buffer

(***************************************************************************)
(* Vocabulary of the properties                                            *)
(***************************************************************************)
\* the step is a call of op on the instance with a non-null item pointer
Calls(op) == (call'.op = op) /\ ValidArgs(call')

\* the bytes of slot i of the storage mem
Slot(mem, i) == [k \in 1..size_of_item |-> mem[(i * size_of_item) + k - 1]]

\* the bytes of item j (from 0) of an output buffer
OutItem(buf, j) == [k \in 1..size_of_item |-> buf[(j * size_of_item) + k]]

\* the bytes of one item value
ItemBytes(v) == Flat(<<v>>, size_of_item)

(***************************************************************************)
(* C1  Round trip: k <= size_of_buffer calls of ring_buffer_add into an    *)
(* empty buffer followed by k calls of ring_buffer_get all return OK, the  *)
(* gets yield the added items in the order they were added, and the buffer *)
(* is empty afterwards, with override enabled as with override disabled.   *)
(* (Stated of the runs in which every load and store stayed inside the     *)
(* storage region.)                                                        *)
(***************************************************************************)
C1_RoundTrip ==
    ((track = "rt") /\ ~ub) =>
        /\ rt.phase # "broken"
        /\ (rt.phase = "done") => ring_buffer_is_empty

\* the same with override disabled
RoundTripNoOverride == (~override) => C1_RoundTrip

(***************************************************************************)
(* C2  After every completed API call 0 <= count <= size_of_buffer, in     *)
(* either override setting.                                                *)
(***************************************************************************)
C2_CountInRange == (0 <= count) /\ (count <= size_of_buffer)

\* the same as long as no store has left the storage region
CountInRangeNoStray == (~ub) => C2_CountInRange

(***************************************************************************)
(* C3  In every reachable state the taken count is the number of items     *)
(* added minus the items removed and the items discarded by override;      *)
(* is_empty iff that number is 0, is_full iff it is size_of_buffer, and    *)
(* free = size_of_buffer - taken.                                          *)
(***************************************************************************)
C3_CountIsLevel ==
    (track = "level") =>
        /\ ring_buffer_get_taken = level
        /\ ring_buffer_is_empty <=> (level = 0)
        /\ ring_buffer_is_full <=> (level = size_of_buffer)
        /\ ring_buffer_get_free = size_of_buffer - ring_buffer_get_taken

\* the same with override disabled
CountIsLevelNoOverride == (~override) => C3_CountIsLevel

(***************************************************************************)
(* C4  After every completed call, ring_buffer_add_multi with any request  *)
(* size and either override setting included, head and tail are in         *)
(* [0, size_of_buffer).                                                    *)
(***************************************************************************)
C4_IndicesInRange ==
    /\ head \in 0..(size_of_buffer - 1)
    /\ tail \in 0..(size_of_buffer - 1)

\* the same with override disabled
IndicesInRangeNoOverride == (~override) => C4_IndicesInRange

(***************************************************************************)
(* C5  With override disabled, after size_of_buffer successful calls of    *)
(* ring_buffer_add in a row the buffer is full, and the next               *)
(* ring_buffer_add returns eRING_BUFFER_FULL and leaves head, tail, count  *)
(* (= size_of_buffer) and the storage as they are.                         *)
(***************************************************************************)
AfterCapacityAdds == (~override) /\ (track = "streak") /\ (streak = size_of_buffer)

C5_FullAfterCapacityAdds ==
    /\ [](AfterCapacityAdds => ring_buffer_is_full)
    /\ [][(AfterCapacityAdds /\ Calls("add")) =>
            /\ call'.status = eRING_BUFFER_FULL
            /\ UNCHANGED <<head, tail, count, p_data>>
            /\ count' = size_of_buffer]_vars

C5_Witness ==
    /\ AfterCapacityAdds
    /\ size_of_buffer >= 2
    /\ call.op = "add"
    /\ call.status = eRING_BUFFER_FULL

(***************************************************************************)
(* C6  With override disabled, ring_buffer_add_multi of more items than    *)
(* are free inserts nothing: it does not return OK and head, tail, count   *)
(* and the storage stay as they are.                                       *)
(***************************************************************************)
C6_AddMultiAllOrNothing ==
    [][((~override) /\ Calls("add_multi") /\ (call'.n > ring_buffer_get_free)) =>
            /\ call'.status # eRING_BUFFER_OK
            /\ UNCHANGED <<head, tail, count, p_data>>]_vars

C6_Witness ==
    /\ ~override
    /\ call.op = "add_multi"
    /\ ValidArgs(call)
    /\ call.n > ring_buffer_get_free
    /\ call.n <= size_of_buffer
    /\ call.status # eRING_BUFFER_OK
    /\ head # tail

(***************************************************************************)
(* C7  With override disabled, an insertion that does not fit              *)
(* (ring_buffer_add on a full buffer, ring_buffer_add_multi of n items     *)
(* with free < n <= size_of_buffer) returns eRING_BUFFER_FULL.             *)
(***************************************************************************)
C7_RejectedWithFull ==
    [][((~override)
        /\ \/ Calls("add") /\ ring_buffer_is_full
           \/ Calls("add_multi") /\ (ring_buffer_get_free < call'.n)
                                 /\ (call'.n <= size_of_buffer))
        => (call'.status = eRING_BUFFER_FULL)]_vars

\* ring_buffer_add alone reports a full buffer with eRING_BUFFER_FULL
AddRejectedWithFull ==
    [][((~override) /\ Calls("add") /\ ring_buffer_is_full)
        => (call'.status = eRING_BUFFER_FULL)]_vars

(***************************************************************************)
(* C8  An insertion of n >= 1 items (n = 1 for ring_buffer_add) that finds at *)
(* least n free slots writes item j to slot (head + j) mod size_of_buffer  *)
(* for every j < n, advances head by n modulo size_of_buffer, adds exactly *)
(* n to count and leaves tail as it is, in either override setting.        *)
(***************************************************************************)
InsertsAtHead ==
    (\/ Calls("add") \/ Calls("add_multi"))
    /\ (call'.status = eRING_BUFFER_OK)
    /\ (1 <= call'.n) /\ (call'.n <= ring_buffer_get_free)
    => /\ \A j \in 0..(call'.n - 1) :
            Slot(p_data', (head + j) % size_of_buffer) = ItemBytes(call'.items[j + 1])
       /\ head' = (head + call'.n) % size_of_buffer
       /\ count' = count + call'.n
       /\ tail' = tail

C8_InsertAtHead == [][InsertsAtHead]_vars

\* the same with override disabled
InsertAtHeadNoOverride == [][(~override) => InsertsAtHead]_vars

(***************************************************************************)
(* C9  A successful ring_buffer_get / ring_buffer_get_multi of n items,    *)
(* 1 <= n <= count, returns the items of the slots                         *)
(* (tail + j) mod size_of_buffer, j < n, in that order, advances tail by n *)
(* modulo size_of_buffer, takes exactly n off count and leaves head and    *)
(* the storage as they are.                                                *)
(***************************************************************************)
RemovesAtTail ==
    (\/ Calls("get") \/ Calls("get_multi"))
    /\ (call'.status = eRING_BUFFER_OK)
    /\ (1 <= call'.n) /\ (call'.n <= count)
    => /\ \A j \in 0..(call'.n - 1) :
            OutItem(call'.out, j) = Slot(p_data, (tail + j) % size_of_buffer)
       /\ tail' = (tail + call'.n) % size_of_buffer
       /\ count' = count - call'.n
       /\ head' = head
       /\ p_data' = p_data

C9_RemoveAtTail == [][RemovesAtTail]_vars

\* the same from the states in which tail is a slot index
RemoveAtTailValidTail == [][(tail < size_of_buffer) => RemovesAtTail]_vars

(***************************************************************************)
(* C10  ring_buffer_get and ring_buffer_get_multi on a buffer with         *)
(* count = 0 return eRING_BUFFER_EMPTY, leave the caller's output buffer   *)
(* untouched and leave head, tail and count as they are.                   *)
(***************************************************************************)
C10_GetOnEmpty ==
    [][((\/ Calls("get") \/ Calls("get_multi")) /\ (count = 0)) =>
            /\ call'.status = eRING_BUFFER_EMPTY
            /\ call'.out = FreshBuf(call'.n * size_of_item)
            /\ UNCHANGED <<head, tail, count>>]_vars

C10_Witness ==
    /\ call.op \in {"get", "get_multi"}
    /\ ValidArgs(call)
    /\ call.n >= 1
    /\ call.status = eRING_BUFFER_EMPTY
    /\ count = 0
    /\ head # 0
    /\ \E i \in DOMAIN p_data : p_data[i] # 0

(***************************************************************************)
(* C11  ring_buffer_get_multi asked for more items than the buffer holds   *)
(* (count > 0, n > count) returns an error status, copies nothing to the   *)
(* caller's buffer and leaves head, tail and count unchanged.              *)
(***************************************************************************)
C11_GetMultiAllOrNothing ==
    [][(Calls("get_multi") /\ (count > 0) /\ (call'.n > count))
        => /\ call'.status \in {eRING_BUFFER_ERROR, eRING_BUFFER_ERROR_INIT,
                                 eRING_BUFFER_ERROR_MEM, eRING_BUFFER_ERROR_INST}
           /\ call'.out = FreshBuf(call'.n * size_of_item)
           /\ UNCHANGED <<head, tail, count, p_data>>]_vars

\* a rejected request for more items than held, on a buffer that holds items
\* and whose tail has moved
C11_Witness ==
    /\ call.op = "get_multi" /\ ValidArgs(call)
    /\ count > 0 /\ call.n > count
    /\ call.status = eRING_BUFFER_ERROR
    /\ tail # 0

(***************************************************************************)
(* C12  With override enabled, ring_buffer_add on a full buffer            *)
(* (count = size_of_buffer) returns OK, writes the item over the oldest    *)
(* one (the slot at tail), advances tail by one and leaves the buffer full *)
(* (count = size_of_buffer).                                               *)
(***************************************************************************)
C12_OverrideAddKeepsFull ==
    [][(override /\ Calls("add") /\ (count = size_of_buffer))
        => /\ call'.status = eRING_BUFFER_OK
           /\ tail < size_of_buffer
           /\ Slot(p_data', tail) = ItemBytes(call'.items[1])
           /\ tail' = (tail + 1) % size_of_buffer
           /\ count' = size_of_buffer]_vars

\* the same without the count
OverrideAddOverwritesOldest ==
    [][(override /\ Calls("add") /\ (count = size_of_buffer) /\ (head = tail)
            /\ (tail < size_of_buffer))
        => /\ call'.status = eRING_BUFFER_OK
           /\ Slot(p_data', tail) = ItemBytes(call'.items[1])
           /\ tail' = (tail + 1) % size_of_buffer]_vars

(***************************************************************************)
(* C13  With override enabled, ring_buffer_add_multi of n items with       *)
(* free < n <= size_of_buffer returns OK, advances tail by n - free (the   *)
(* number of slots overwritten) and leaves count = size_of_buffer.         *)
(***************************************************************************)
C13_OverrideAddMultiTail ==
    [][(override /\ Calls("add_multi")
            /\ (ring_buffer_get_free < call'.n) /\ (call'.n <= size_of_buffer))
        => /\ call'.status = eRING_BUFFER_OK
           /\ tail' = (tail + (call'.n - ring_buffer_get_free)) % size_of_buffer
           /\ count' = size_of_buffer]_vars

(***************************************************************************)
(* C14  Scenario, size 3 with override: add(1), add(2), add(3) return OK   *)
(* and fill the buffer (ring_buffer_is_full, ring_buffer_get_taken = 3);   *)
(* add(4) returns OK; the following ring_buffer_get returns OK and item 2  *)
(* (item 1 was discarded).  (call is the last call with an instance and an *)
(* item pointer; a call without one is not a call of the scenario.)        *)
(***************************************************************************)
C14_OverrideScenario ==
    ((track = "script") /\ (script.steps = OverrideScenario))
    => /\ ((script.pos \in 1..5) /\ ValidArgs(call)) => (call.status = eRING_BUFFER_OK)
       /\ (script.pos = 3) => (ring_buffer_is_full /\ (ring_buffer_get_taken = 3))
       /\ ((script.pos = 5) /\ ValidArgs(call)) => (call.out = ItemBytes(2))

\* the same, the counter left aside: the storage holds 4, 2, 3 after add(4)
OverrideScenarioStorage ==
    ((track = "script") /\ (script.steps = OverrideScenario) /\ (script.pos = 4))
    => /\ Slot(p_data, 0) = ItemBytes(4)
       /\ Slot(p_data, 1) = ItemBytes(2)
       /\ Slot(p_data, 2) = ItemBytes(3)

(***************************************************************************)
(* C15  Override law: with override enabled, one ring_buffer_add_multi of  *)
(* size_of_buffer + m items (0 < m <= size_of_buffer) returns OK and       *)
(* leaves ring_buffer_get_taken = size_of_buffer, and the size_of_buffer   *)
(* calls of ring_buffer_get that follow return OK and the last             *)
(* size_of_buffer of these items, in order.                                *)
(***************************************************************************)
C15_OverrideLaw ==
    (track = "law")
    => /\ law.phase # "broken"
       /\ ((call.op = "add_multi") /\ ValidArgs(call) /\ ~ub
             /\ (law.phase = "getting") /\ (Len(law.pending) = size_of_buffer))
          => (ring_buffer_get_taken = size_of_buffer)

(***************************************************************************)
(* C16  ring_buffer_add_multi of more than size_of_buffer items returns an *)
(* error status and leaves head, tail, count and the storage unchanged,    *)
(* with override enabled as with override disabled, and nothing is written *)
(* outside the storage.                                                    *)
(***************************************************************************)
C16_AddMultiOverCapacity ==
    [][(Calls("add_multi") /\ (call'.n > size_of_buffer))
        => /\ call'.status \in {eRING_BUFFER_ERROR, eRING_BUFFER_ERROR_INIT,
                                 eRING_BUFFER_ERROR_MEM, eRING_BUFFER_ERROR_INST}
           /\ UNCHANGED <<head, tail, count, p_data>>
           /\ ~ub']_vars

\* the same with override disabled
AddMultiOverCapacityNoOverride ==
    [][((~override) /\ Calls("add_multi") /\ (call'.n > size_of_buffer))
        => /\ call'.status = eRING_BUFFER_ERROR
           /\ UNCHANGED <<head, tail, count, p_data>>
           /\ ~ub']_vars

\* no call ever writes or reads outside the storage with override disabled
NoStrayAccessNoOverride == (~override) => ~ub

(***************************************************************************)
(* C17  With override enabled the buffer is never full for the writer:     *)
(* ring_buffer_add, and ring_buffer_add_multi of at most size_of_buffer    *)
(* items, called on the initialized instance with an item pointer, return  *)
(* OK from every reachable state.                                          *)
(***************************************************************************)
C17_OverrideNeverFull ==
    [][(override /\ (\/ Calls("add")
                     \/ Calls("add_multi") /\ (call'.n <= size_of_buffer)))
        => (call'.status = eRING_BUFFER_OK)]_vars

\* an add that returned OK on a buffer that was full: the count the add
\* found was size_of_buffer, the only count from which it leaves 0
C17_Witness ==
    /\ override /\ (size_of_buffer >= 2)
    /\ call.op = "add" /\ ValidArgs(call)
    /\ call.status = eRING_BUFFER_OK
    /\ ~ub
    /\ count = 0

(***************************************************************************)
(* C18  With override disabled, ring_buffer_add and ring_buffer_add_multi  *)
(* never change tail, whether they return OK or reject the request; tail   *)
(* changes only in ring_buffer_get, ring_buffer_get_multi and              *)
(* ring_buffer_reset.                                                      *)
(***************************************************************************)
C18_AddKeepsTail ==
    [][(~override)
        => /\ (call'.op \in {"add", "add_multi"}) => (tail' = tail)
           /\ (tail' # tail) => (call'.op \in {"get", "get_multi", "reset"})]_vars

\* an insertion that returned OK after tail had moved, and wrapped around the
\* end of the storage
C18_Witness ==
    /\ ~override
    /\ call.op \in {"add", "add_multi"} /\ ValidArgs(call)
    /\ call.status = eRING_BUFFER_OK
    /\ tail # 0
    /\ head <= tail

\* the call returned OK and the item value v
Yields(c, v) == (c.status = eRING_BUFFER_OK) /\ (c.out = ItemBytes(v))

\* n items have been added into an empty buffer and nothing else was called
\* since but ring_buffer_get_by_index
AddedIntoEmpty(n) ==
    (track = "rt") /\ (rt.phase = "adding") /\ (Len(rt.pending) = n) /\ (n >= 1)

(***************************************************************************)
(* C19  Inverse-index law: after n calls of ring_buffer_add with the items *)
(* v0 .. v(n-1) into an empty buffer (1 <= n <= size_of_buffer),           *)
(* ring_buffer_get_by_index returns OK and v(n-1) for the index -1, v0 for *)
(* the index -n and v0 for the index 0.                                    *)
(***************************************************************************)
C19_InverseIndexLaw ==
    [][\A n \in 1..size_of_buffer :
        (AddedIntoEmpty(n) /\ Calls("get_by_index"))
        => /\ (call'.idx = 0 - 1) => Yields(call', rt.pending[n])
           /\ (call'.idx = 0 - n) => Yields(call', rt.pending[1])
           /\ (call'.idx = 0) => Yields(call', rt.pending[1])]_vars

\* the part of the law that holds: the two negative indices, with override
\* disabled, once the adds have filled the buffer
InverseIndexLawWhenFull ==
    [][((~override) /\ AddedIntoEmpty(size_of_buffer) /\ Calls("get_by_index"))
        => /\ (call'.idx = 0 - 1) => Yields(call', rt.pending[size_of_buffer])
           /\ (call'.idx = 0 - size_of_buffer) => Yields(call', rt.pending[1])]_vars

(***************************************************************************)
(* C20  In every reachable state in which an item has been added since     *)
(* construction or reset, ring_buffer_get_by_index returns OK and the item *)
(* added last for the index -1; once size_of_buffer or more items have     *)
(* been added, it returns the oldest item still held for the index         *)
(* -size_of_buffer.  With override enabled as with override disabled.      *)
(***************************************************************************)
C20_InverseIndexAlways ==
    [][((track = "kept") /\ Calls("get_by_index"))
        => /\ ((call'.idx = 0 - 1) /\ (kept.added >= 1))
              => Yields(call', kept.last)
           /\ ((call'.idx = 0 - size_of_buffer) /\ (kept.added = size_of_buffer)
                 /\ (kept.items # <<>>))
              => Yields(call', Head(kept.items))]_vars

\* the case that holds: override disabled and the buffer full
InverseIndexWhenFull ==
    [][((track = "kept") /\ (~override) /\ ring_buffer_is_full
            /\ Calls("get_by_index"))
        => /\ (call'.idx = 0 - 1) => Yields(call', kept.last)
           /\ (call'.idx = 0 - size_of_buffer)
              => Yields(call', Head(kept.items))]_vars

(***************************************************************************)
(* C21  Scenario, size 4, items of one byte, override disabled: after      *)
(* add(1), add(2), add(3) ring_buffer_get_taken is 3; ring_buffer_get      *)
(* returns item 1 and leaves 2 taken; add(4) returns OK; add(5) returns OK *)
(* as well, a slot being free, and fills the buffer; the following         *)
(* ring_buffer_get_by_index with index -1 returns OK and item 5, the item  *)
(* added last.  (call is the last call with an instance and an item        *)
(* pointer; a call without one is not a call of the scenario.)             *)
(***************************************************************************)
InFifoScenario == (track = "script") /\ (script.steps = FifoScenario)

\* the part of the scenario up to add(4)
FifoScenarioStart ==
    /\ ((script.pos \in 1..5) /\ ValidArgs(call)) => (call.status = eRING_BUFFER_OK)
    /\ (script.pos = 3) => (ring_buffer_get_taken = 3)
    /\ (script.pos = 4) => (ring_buffer_get_taken = 2)
    /\ ((script.pos = 4) /\ ValidArgs(call)) => (call.out = ItemBytes(1))

C21_FifoScenario ==
    InFifoScenario
    => /\ FifoScenarioStart
       /\ ((script.pos = 6) /\ ValidArgs(call)) => (call.status = eRING_BUFFER_OK)
       /\ (script.pos = 6) => (ring_buffer_is_full /\ (ring_buffer_get_taken = 4))
       /\ ((script.pos = 7) /\ ValidArgs(call)) => Yields(call, 5)

\* the last call of the scenario has been made
C21_Witness ==
    /\ InFifoScenario
    /\ script.pos = 7
    /\ call.op = "get_by_index" /\ ValidArgs(call)
    /\ call.idx = 0 - 1
    /\ call.status = eRING_BUFFER_OK

\* the scenario as the specification states it: add(5) returns
\* eRING_BUFFER_FULL and the index -1 yields item 4
C21_FifoScenarioAsStated ==
    InFifoScenario
    => /\ FifoScenarioStart
       /\ ((script.pos = 6) /\ ValidArgs(call)) => (call.status = eRING_BUFFER_FULL)
       /\ ((script.pos = 7) /\ ValidArgs(call)) => Yields(call, 4)

(***************************************************************************)
(* C22  ring_buffer_get_by_index called on the instance with an item       *)
(* pointer returns eRING_BUFFER_ERROR for every index outside              *)
(* [-size_of_buffer, size_of_buffer), the indices size_of_buffer and       *)
(* -(size_of_buffer + 1) among them, and then leaves the caller's buffer,  *)
(* head, tail, count and the storage as they are; it returns OK for every  *)
(* index inside that range.                                                *)
(***************************************************************************)
IndexInRange(idx) == (idx >= 0 - size_of_buffer) /\ (idx < size_of_buffer)

C22_IndexRange ==
    [][Calls("get_by_index")
        => IF IndexInRange(call'.idx)
           THEN call'.status = eRING_BUFFER_OK
           ELSE /\ call'.status = eRING_BUFFER_ERROR
                /\ call'.out = FreshBuf(size_of_item)
                /\ UNCHANGED <<head, tail, count, p_data>>]_vars

\* the index just below the range was rejected on a buffer that holds an item
\* and whose tail has moved
C22_Witness ==
    /\ call.op = "get_by_index" /\ ValidArgs(call)
    /\ call.idx = 0 - (size_of_buffer + 1)
    /\ call.status = eRING_BUFFER_ERROR
    /\ count > 0
    /\ tail # 0

\* the index just above the range was rejected as well
IndexAboveRangeRejected ==
    /\ call.op = "get_by_index" /\ ValidArgs(call)
    /\ call.idx = size_of_buffer
    /\ call.status = eRING_BUFFER_ERROR
    /\ count > 0

(***************************************************************************)
(* C23  ring_buffer_get_by_index never changes head, tail, count or the    *)
(* stored items, whatever its arguments and its result.  It leaves every   *)
(* field of the instance and the storage as they are, so the calls that    *)
(* follow find the state they would have found without it.                 *)
(***************************************************************************)
C23_GetByIndexFrame ==
    [][(call'.op = "get_by_index")
        => UNCHANGED <<head, tail, count, p_data, ub, config>>]_vars

\* an indexed read that returned an item from a buffer that holds items and
\* whose head and tail have moved
C23_Witness ==
    /\ call.op = "get_by_index" /\ ValidArgs(call)
    /\ call.status = eRING_BUFFER_OK
    /\ call.out # FreshBuf(size_of_item)
    /\ call.idx < 0
    /\ count > 0
    /\ tail # 0
    /\ head # tail

(***************************************************************************)
(* C24  Normal access counts from the oldest slot forward: in every        *)
(* reachable state and for every i in [0, size_of_buffer),                 *)
(* ring_buffer_get_by_index returns for the index i the item it returns    *)
(* for the index i - size_of_buffer; for the index 0 it returns the oldest *)
(* item, the one the next ring_buffer_get would return (the item of the    *)
(* slot at tail), and for the index size_of_buffer - 1 the item it returns *)
(* for the index -1.                                                       *)
(***************************************************************************)
\* both indices have been read in the present state of the buffer
SeenBoth(i, j) == (seen[i] # <<>>) /\ (seen[j] # <<>>)

C24_NormalAccess ==
    (track = "seen")
    => /\ \A i \in 0..(size_of_buffer - 1) :
            SeenBoth(i, i - size_of_buffer) => (seen[i] = seen[i - size_of_buffer])
       /\ ((seen[0] # <<>>) /\ (count > 0) /\ (tail < size_of_buffer))
          => (seen[0] = Slot(p_data, tail))

\* the case that holds: tail is 0, the oldest slot being the first slot
NormalAccessTailZero == (tail = 0) => C24_NormalAccess

(***************************************************************************)
(* C25  ring_buffer_reset on the initialized instance returns OK and, from *)
(* every reachable state, leaves head = 0, tail = 0, count = 0 and every   *)
(* byte of the storage zero, keeps size_of_buffer, size_of_item and the    *)
(* override attribute, and is idempotent: a second reset right after the   *)
(* first changes nothing.                                                  *)
(***************************************************************************)
C25_Reset ==
    /\ [][Calls("reset")
            => /\ call'.status = eRING_BUFFER_OK
               /\ head' = 0 /\ tail' = 0 /\ count' = 0
               /\ DOMAIN p_data' = DOMAIN p_data
               /\ \A i \in DOMAIN p_data' : p_data'[i] = 0
               /\ UNCHANGED config]_vars
    /\ [][((call.op = "reset") /\ ValidArgs(call) /\ Calls("reset"))
            => UNCHANGED <<head, tail, count, p_data, config>>]_vars

\* the state a reset has left
C25_Witness ==
    /\ call.op = "reset" /\ ValidArgs(call)
    /\ call.status = eRING_BUFFER_OK
    /\ head = 0 /\ tail = 0 /\ count = 0
    /\ size_of_buffer >= 2
    /\ \A i \in DOMAIN p_data : p_data[i] = 0

\* the last call was a construction that returned OK
JustConstructed ==
    (call.op \in {"init", "init_static"}) /\ (call.status = eRING_BUFFER_OK)

(***************************************************************************)
(* C26  Right after every successful construction (ring_buffer_init with   *)
(* or without attributes, ring_buffer_init_static): head = tail = 0,       *)
(* ring_buffer_get_taken is 0, ring_buffer_get_free is the size of the     *)
(* buffer, ring_buffer_is_empty is true, ring_buffer_is_full is false and  *)
(* is_init is true.                                                        *)
(***************************************************************************)
C26_AfterConstruction ==
    JustConstructed
    => /\ head = 0 /\ tail = 0
       /\ ring_buffer_get_taken = 0
       /\ ring_buffer_get_free = call.n
       /\ ring_buffer_is_empty
       /\ ~ring_buffer_is_full
       /\ is_init

\* the same for the constructions with a size of at least 1
AfterConstructionSized == (call.n >= 1) => C26_AfterConstruction

\* the construction is refused and the instance is left as it is
RefusedAsInitialized ==
    /\ call'.status = eRING_BUFFER_ERROR_INIT
    /\ UNCHANGED <<head, tail, count, size_of_buffer, p_data>>

(***************************************************************************)
(* C27  A construction of the instance that is already initialized,        *)
(* through ring_buffer_init or through ring_buffer_init_static, fails with *)
(* eRING_BUFFER_ERROR_INIT, the status of an instance already initialised, *)
(* and leaves head, tail, count, the size and the stored items of the      *)
(* instance unchanged.                                                     *)
(***************************************************************************)
C27_Reinit ==
    [][(is_init /\ (call'.op \in {"init", "init_static"}) /\ (call'.inst # NULL))
        => RefusedAsInitialized]_vars

\* the same through ring_buffer_init alone
ReinitThroughInit ==
    [][(is_init /\ (call'.op = "init") /\ (call'.inst # NULL))
        => RefusedAsInitialized]_vars

\* the functions that work on a constructed instance
Operations == {"add", "add_multi", "get", "get_multi", "get_by_index", "reset"}

\* the call changed neither the instance nor the caller's output buffer
NothingTouched ==
    /\ UNCHANGED <<head, tail, count, p_data, config>>
    /\ \A i \in DOMAIN call'.out : call'.out[i] = 0 - 1

(***************************************************************************)
(* C28  ring_buffer_add, ring_buffer_add_multi, ring_buffer_get,           *)
(* ring_buffer_get_multi, ring_buffer_get_by_index and ring_buffer_reset   *)
(* called before a construction has succeeded, whatever the other          *)
(* arguments, change neither the instance nor the caller's output, and     *)
(* return eRING_BUFFER_ERROR_INIT when they are given an instance (one     *)
(* whose is_init flag is clear), eRING_BUFFER_ERROR_INST when they are     *)
(* given the null handle, which is all the caller has until                *)
(* ring_buffer_init has allocated the instance.                            *)
(***************************************************************************)
C28_NotInitialized ==
    [][((~is_init) /\ (call'.op \in Operations))
        => /\ call'.status = IF call'.inst = NULL THEN eRING_BUFFER_ERROR_INST
                                                  ELSE eRING_BUFFER_ERROR_INIT
           /\ NothingTouched]_vars

\* a get on the instance that ring_buffer_init left without storage: the
\* caller's buffer of size_of_item bytes came back as it was
C28_Witness ==
    /\ ~is_init
    /\ p_ring_buffer = PTR
    /\ size_of_buffer >= 1
    /\ call.op = "get" /\ ValidArgs(call)
    /\ call.status = eRING_BUFFER_ERROR_INIT
    /\ call.out = FreshBuf(ItemSize)

\* the claim as the specification states it: eRING_BUFFER_ERROR_INIT for
\* every call made with what the caller has before a construction succeeded
C28_NotInitializedAsStated ==
    [][((~is_init) /\ (call'.op \in Operations) /\ (call'.inst = p_ring_buffer))
        => /\ call'.status = eRING_BUFFER_ERROR_INIT
           /\ NothingTouched]_vars

(***************************************************************************)
(* C29  The accessors ring_buffer_get_size, ring_buffer_get_item_size,     *)
(* ring_buffer_get_taken, ring_buffer_get_free, ring_buffer_is_full,       *)
(* ring_buffer_is_empty and ring_buffer_get_name have no side effects, and *)
(* what each of them returns before a construction has succeeded differs   *)
(* from everything it returns for the constructed instance.                *)
(***************************************************************************)
C29_Accessors ==
    /\ [][(call'.op \in Accessors)
            => UNCHANGED <<head, tail, count, p_data, ub, config>>]_vars
    /\ []((is_init /\ (track = "early") /\ (call.op \in Accessors)
             /\ (call.op = early.op))
          => (call.out[1] # early.result))

\* the part that holds: no accessor changes the instance or the storage
AccessorsNoSideEffect ==
    [][(call'.op \in Accessors)
        => UNCHANGED <<head, tail, count, p_data, ub, config>>]_vars

\* the step is one load of the consumer's copy out of the storage
CopiesOut == (cons.pc = "copy") /\ (cons' # cons)

\* the step is one store of the producer's copy into the storage
CopiesIn == (prod.pc = "copy") /\ (prod' # prod)

\* the slot s holds a published item that is not yet copied out completely
Held(s) == \E q \in pub : q[1] = s

\* C30: without override, a producer (ring_buffer_add, ring_buffer_add_multi)
\* and a consumer (ring_buffer_get, ring_buffer_get_multi) interleaved step by
\* step: every byte the consumer copies out comes from a slot whose item the
\* count update has made visible, and is the byte of that item, so the item
\* was written completely before it became visible; and the producer never
\* stores into a slot that holds an item the consumer has not finished
\* copying out.
C30_WriteThenPublish ==
    [][/\ CopiesOut =>
              \E q \in pub :
                  /\ q[1] = SlotOf(get_src(cons.op, cons.n, cons.k))
                  /\ cons'.out[cons.k + 1] = ItemByte(q[2], cons.k % size_of_item)
       /\ CopiesIn => ~Held(SlotOf(add_dst(prod.op, prod.n, prod.k)))]_vars

\* the consumer is in the middle of copying an item out while the producer is
\* in the middle of copying one in, after the slots have been used once
C30_Witness ==
    /\ cons.pc = "copy"
    /\ cons.k % size_of_item # 0
    /\ prod.pc = "copy"
    /\ prod.k % size_of_item # 0
    /\ Held(SlotOf(get_src(cons.op, cons.n, cons.k)))
    /\ LET s == SlotOf(add_dst(prod.op, prod.n, prod.k))
       IN  /\ ~Held(s)
           /\ \E v \in ItemIds :
                  p_data[(s * size_of_item) + size_of_item - 1]
                      = ItemByte(v, size_of_item - 1)

\* the step is the return of a successful ring_buffer_get or
\* ring_buffer_get_multi of the consumer
GetReturns == (cons.pc = "tail") /\ (cons'.pc = "idle")

\* the values of the first n accepted items not yet returned
Oldest(n) == [j \in 1..n |-> queue.items[j][1]]

\* C31: without override, in every interleaving of a producer
\* (ring_buffer_add, ring_buffer_add_multi) and a consumer (ring_buffer_get,
\* ring_buffer_get_multi), a successful get returns the oldest accepted items
\* not yet returned, in the order they were accepted: the items returned are
\* a prefix of the items accepted, none lost, duplicated or reordered.
C31_FifoPrefix ==
    [][GetReturns =>
           /\ Len(queue.items) >= cons.n
           /\ cons.out = Flat(Oldest(cons.n), size_of_item)]_vars

\* a bulk get has copied out items accepted from two different calls, across
\* the end of the storage, while the producer is copying in
C31_Witness ==
    /\ cons.pc = "tail"
    /\ cons.n = 2
    /\ tail = size_of_buffer - 1
    /\ cons.out = Flat(<<1, 1>>, size_of_item)
    /\ prod.pc = "copy"

\* the step is the producer's update of count: the atomic_fetch_add, or with
\* override the atomic_store
ProducerCounts ==
    /\ prod' # prod
    /\ \/ (prod.pc = "count") /\ ~override
       \/ prod.pc = "store"

\* the step is the consumer's update of count
ConsumerCounts == (cons.pc = "count") /\ (cons' # cons)

\* C32: in every interleaving of a producer and a consumer, with or without
\* override, count stays within 0..size_of_buffer and no update of count is
\* lost: the producer's update adds its n items to the count of that moment
\* (up to the size), the consumer's update takes its n items from it.
C32_CountAtomic ==
    /\ [](count \in 0..size_of_buffer)
    /\ [][/\ ProducerCounts => count' = Min(count + prod.n, size_of_buffer)
          /\ ConsumerCounts => count' = count - cons.n]_vars

\* the same without override
CountAtomicNoOverride ==
    /\ [](count \in 0..size_of_buffer)
    /\ [][/\ ProducerCounts => count' = count + prod.n
          /\ ConsumerCounts => count' = count - cons.n]_vars

\* with override the count falls below zero: the consumer takes an item from
\* a count the producer has stored as 0
CountUnderflow == count > size_of_buffer

\* the step is a step of a call of the producer
ProducerStep == prod' # prod

\* the step is a step of a call of the consumer, the call being one of ops
ConsumerStep(ops) == (cons' # cons) /\ (cons'.op \in ops)

\* C33: the steps of ring_buffer_add and ring_buffer_add_multi (no override)
\* change nothing but head, count and the storage; the steps of
\* ring_buffer_get and ring_buffer_get_multi change nothing but tail and
\* count, so a get interleaved with an add in progress changes neither head
\* nor a slot the producer is writing.
C33_RoleFields ==
    [][/\ ProducerStep => UNCHANGED <<tail, config>>
       /\ ConsumerStep({"get", "get_multi"})
              => UNCHANGED <<head, p_data, config>>]_vars

\* the consumer has taken an item out and is taking the next one while the
\* producer is in the middle of copying an item in
C33_Witness ==
    /\ prod.pc = "copy"
    /\ prod.k % size_of_item # 0
    /\ cons.op = "get"
    /\ cons.pc = "count"
    /\ tail # 0

\* the same with ring_buffer_reset among the consumer's operations
C33_RoleFieldsAsStated ==
    [][/\ ProducerStep => UNCHANGED <<tail, config>>
       /\ ConsumerStep({"get", "get_multi", "reset"})
              => UNCHANGED <<head, p_data, config>>]_vars

\* C34: with no add running, ring_buffer_get called again and again after
\* ring_buffer_get_taken was read returns OK exactly as many times as the
\* value read and then eRING_BUFFER_EMPTY, the count falling by one with each
\* get; afterwards ring_buffer_is_empty is true.
C34_Drain ==
    /\ drain.phase # "broken"
    /\ drain.phase = "drain" => ring_buffer_get_taken = drain.taken - drain.gets
    /\ drain.phase = "done" => (drain.gets = drain.taken) /\ ring_buffer_is_empty

\* a full buffer of two items or more, the oldest not in slot 0, has been
\* pumped out
C34_Witness ==
    /\ drain.phase = "done"
    /\ drain.taken = size_of_buffer
    /\ drain.taken >= 2
    /\ tail # 0

\* the step is a call of add, get, get_by_index or reset with the caller's
\* handle
OnHandle ==
    /\ call'.op \in {"add", "get", "get_by_index", "reset"}
    /\ call'.inst = p_ring_buffer

\* the step is a call of ring_buffer_init in which an allocation fails
AllocationFails == (call'.op = "init") /\ (alloc'.last # "none")

\* C35: when the allocation of the instance or of its storage fails,
\* ring_buffer_init returns eRING_BUFFER_ERROR_MEM and the instance is not
\* marked initialized; until a construction succeeds, every add, get,
\* get_by_index and reset with that handle returns eRING_BUFFER_ERROR_INIT
\* when the instance was allocated (the storage was not) and
\* eRING_BUFFER_ERROR_INST when it was not (the handle is null).
C35_AllocationFailure ==
    /\ [](alloc.failed => ~is_init)
    /\ [][/\ AllocationFails
              => /\ call'.status = eRING_BUFFER_ERROR_MEM
                 /\ ~is_init'
                 /\ p_ring_buffer' = NULL <=> alloc'.last = "calloc"
          /\ alloc.failed /\ OnHandle
              => call'.status = IF p_ring_buffer = NULL
                                THEN eRING_BUFFER_ERROR_INST
                                ELSE eRING_BUFFER_ERROR_INIT]_vars

\* the allocation of the storage has failed, a second ring_buffer_init has
\* been refused, and a call with the handle has returned since
C35_Witness ==
    /\ alloc.failed
    /\ alloc.last = "none"
    /\ p_ring_buffer # NULL
    /\ call.op = "get"
    /\ call.status = eRING_BUFFER_ERROR_INIT

\* the same, every later call returning eRING_BUFFER_ERROR_INIT
C35_AllocationFailureAsStated ==
    /\ [](alloc.failed => ~is_init)
    /\ [][/\ AllocationFails
              => (call'.status = eRING_BUFFER_ERROR_MEM) /\ ~is_init'
          /\ alloc.failed /\ OnHandle
              => call'.status = eRING_BUFFER_ERROR_INIT]_vars

\* C36: ring_buffer_is_init returns true exactly when it is given an instance
\* (not a null pointer) whose construction has succeeded; for a null pointer
\* it returns false.
C36_IsInit ==
    (call.op = "is_init")
        => (call.out[1] <=> ((call.inst # NULL) /\ is_init))

\* the part that holds: for an instance, ring_buffer_is_init returns its
\* is_init flag, set by a successful construction only
IsInitOfInstance ==
    /\ (call.op = "is_init") /\ (call.inst # NULL) => (call.out[1] <=> is_init)
    /\ alloc.failed => ~is_init

\* C37: without override, after every completed call
\* head = (tail + count) mod size_of_buffer, so head = tail exactly when the
\* buffer is empty or full.
C37_HeadTailCount ==
    (~override) =>
        /\ head = (tail + count) % size_of_buffer
        /\ (head = tail) <=> (ring_buffer_is_empty \/ ring_buffer_is_full)

\* an add has wrapped head to a slot below tail
C37_Witness ==
    /\ ~override
    /\ call.op = "add"
    /\ call.status = eRING_BUFFER_OK
    /\ head < tail
    /\ count > 0

\* C38: without override and with n <= free, ring_buffer_add_multi of n items
\* leaves the storage, head, tail and count as n calls of ring_buffer_add of
\* the same items in order leave them; with 1 <= n <= count,
\* ring_buffer_get_multi of n items yields the output and leaves the fields
\* as n calls of ring_buffer_get do, for every position of head and tail in
\* the storage, the copies that cross its end included.
C38_BulkAsSingles ==
    [][/\ (Calls("add_multi") /\ ~override /\ (call'.n <= ring_buffer_get_free))
              => /\ call'.status = eRING_BUFFER_OK
                 /\ Fields' = Adds(Fields, call'.items)
       /\ (Calls("get_multi") /\ (tail < size_of_buffer) /\ (1 <= call'.n)
              /\ (call'.n <= count))
              => /\ call'.status = eRING_BUFFER_OK
                 /\ Fields' = Gets(Fields, call'.n).st
                 /\ call'.out = Gets(Fields, call'.n).out]_vars

\* a bulk add of the whole size has crossed the end of the storage and a
\* bulk get of the whole size has crossed it as well
C38_Witness ==
    /\ ~override
    /\ call.op = "get_multi"
    /\ call.status = eRING_BUFFER_OK
    /\ call.n = size_of_buffer
    /\ call.n >= 2
    /\ tail # 0
    /\ call.out = Flat(Ramp(1, call.n), size_of_item)

\* the slot ring_buffer_get_by_index reads for the index idx
SlotRead(idx) == ring_buffer_parse_index(idx, tail, size_of_buffer)

\* C39: for every index the range check accepts and a tail inside the
\* storage, the slot that ring_buffer_parse_index computes, with the unsigned
\* sum size + (uint32_t)idx + tail wrapped by one subtraction, lies in
\* [0, size_of_buffer); an accepted ring_buffer_get_by_index then reads that
\* slot of the storage and nothing outside it.
C39_SlotInStorage ==
    /\ [](tail < size_of_buffer
            => \A idx \in Indices :
                  ring_buffer_check_index(idx, size_of_buffer)
                      => /\ SlotRead(idx) >= 0
                         /\ SlotRead(idx) < size_of_buffer)
    /\ [][(Calls("get_by_index") /\ (tail < size_of_buffer)
              /\ ring_buffer_check_index(call'.idx, size_of_buffer))
            => /\ call'.status = eRING_BUFFER_OK
               /\ ~ub'
               /\ call'.out = Slot(p_data, SlotRead(call'.idx))]_vars

\* an accepted negative index whose sum with the size and tail went past the
\* end of the storage and was wrapped back
C39_Witness ==
    /\ call.op = "get_by_index" /\ ValidArgs(call)
    /\ call.status = eRING_BUFFER_OK
    /\ call.idx < 0
    /\ tail < size_of_buffer
    /\ size_of_buffer + call.idx + tail >= size_of_buffer
    /\ SlotRead(call.idx) = call.idx + tail
    /\ ~ub

\* the numbers an accepted item can have, whatever the size
TicketIds == 0..(2 * MaxSize)

\* the accepted item numbered q has not been returned yet
Waiting(q) == \E j \in 1..Len(queue.items) : queue.items[j][2] = q

\* the producer has returned with the status st
ProducerReturned(st) == (prod.pc = "idle") /\ (prod.status = st)

\* C40: without override, with a producer that retries ring_buffer_add after
\* eRING_BUFFER_FULL and a consumer that keeps calling ring_buffer_get, both
\* weakly fair, every call returns, every item accepted by ring_buffer_add is
\* eventually returned by a ring_buffer_get, and an add that found the buffer
\* full is eventually accepted.
C40_Progress ==
    /\ (prod.pc # "idle") ~> (prod.pc = "idle")
    /\ (cons.pc # "idle") ~> (cons.pc = "idle")
    /\ \A q \in TicketIds : Waiting(q) ~> ~Waiting(q)
    /\ ProducerReturned(eRING_BUFFER_FULL) ~> ProducerReturned(eRING_BUFFER_OK)
    /\ [][(queue'.items # queue.items /\ Len(queue'.items) <= Len(queue.items))
            => /\ GetReturns
               /\ queue'.items = Tail(queue.items)
               /\ cons.out = Flat(<<Head(queue.items)[1]>>, size_of_item)]_vars

\* the producer has returned from an add that found the buffer full, while
\* the consumer is copying out the oldest of the accepted items
C40_Witness ==
    /\ ProducerReturned(eRING_BUFFER_FULL)
    /\ Len(queue.items) = size_of_buffer
    /\ cons.pc = "copy"
    /\ queue.next # 0

====
